---- MODULE Spec2Model ----
(***************************************************************************)
(* Model of the semantic penalty lookup of the Mumbai travel assistant:    *)
(* tools/get_penalty_details.py (record parsing, model loading, embedding  *)
(* warm-up, search) and utils/redis.py (the embedding cache).              *)
(*                                                                         *)
(* Strings are sequences of one-character strings, so that strip, lower,   *)
(* startswith, split, join and the JSON encoding of the cached text list   *)
(* are computed as the code computes them.  A float32 is represented by    *)
(* its 32-bit pattern, so that tobytes/frombuffer/reshape are computed on  *)
(* bytes.  Every coroutine of the asyncio event loop is a caller; one      *)
(* action is the code that runs between two suspension points.             *)
(***************************************************************************)
EXTENDS Integers, Sequences, FiniteSets, TLC

\* ------------------------------------------------------------------------
\* Bounds of the model
\* ------------------------------------------------------------------------

\* longest dataset file, in lines, given to the parsers
MaxLines == 4

\* number of coroutines that call into the module concurrently
NumCallers == 2

\* number of calls started over one run of the process
MaxCalls == 2

\* number of environment faults (missing file, model load, encoder) per run
MaxFaults == 2

\* dimensionality of the vectors of the configured model
Dim == 2

\* ------------------------------------------------------------------------
\* Strings
\* ------------------------------------------------------------------------

\* an optional value is a sequence of no or one element
None == <<>>

Some(x) == <<x>>

Get(o) == o[1]

IsSpace(c) == c = " "

UpperCase ==
    <<"A", "B", "C", "D", "E", "F", "G", "H", "I", "J", "K", "L", "M", "N",
      "O", "P", "Q", "R", "S", "T", "U", "V", "W", "X", "Y", "Z">>

LowerCase ==
    <<"a", "b", "c", "d", "e", "f", "g", "h", "i", "j", "k", "l", "m", "n",
      "o", "p", "q", "r", "s", "t", "u", "v", "w", "x", "y", "z">>

\* str.lower() on one character
LowerChar(c) ==
    IF \E i \in 1..Len(UpperCase) : UpperCase[i] = c
    THEN LowerCase[CHOOSE i \in 1..Len(UpperCase) : UpperCase[i] = c]
    ELSE c

\* str.lower()
Lower(s) == [i \in 1..Len(s) |-> LowerChar(s[i])]

RECURSIVE LStrip(_)
LStrip(s) ==
    IF s = <<>> THEN <<>>
    ELSE IF IsSpace(Head(s)) THEN LStrip(Tail(s)) ELSE s

RECURSIVE RStrip(_)
RStrip(s) ==
    IF s = <<>> THEN <<>>
    ELSE IF IsSpace(s[Len(s)]) THEN RStrip(SubSeq(s, 1, Len(s) - 1)) ELSE s

\* str.strip()
Strip(s) == RStrip(LStrip(s))

\* str.startswith(prefix)
StartsWith(s, prefix) ==
    /\ Len(prefix) <= Len(s)
    /\ SubSeq(s, 1, Len(prefix)) = prefix

\* str.split(sep, maxsplit) for a one-character separator
RECURSIVE Split(_, _, _)
Split(s, sep, maxsplit) ==
    IF maxsplit = 0 \/ ~(\E i \in 1..Len(s) : s[i] = sep)
    THEN <<s>>
    ELSE LET i == CHOOSE k \in 1..Len(s) :
                    /\ s[k] = sep
                    /\ \A j \in 1..(k - 1) : s[j] # sep
         IN  <<SubSeq(s, 1, i - 1)>>
                 \o Split(SubSeq(s, i + 1, Len(s)), sep, maxsplit - 1)

\* sep.join(parts)
RECURSIVE Join(_, _)
Join(sep, parts) ==
    IF parts = <<>> THEN <<>>
    ELSE IF Len(parts) = 1 THEN parts[1]
    ELSE parts[1] \o sep \o Join(sep, Tail(parts))

\* the non-empty elements of a sequence, in order
RECURSIVE NonEmptyOnly(_)
NonEmptyOnly(parts) ==
    IF parts = <<>> THEN <<>>
    ELSE IF Head(parts) # <<>>
         THEN <<Head(parts)>> \o NonEmptyOnly(Tail(parts))
         ELSE NonEmptyOnly(Tail(parts))

\* ------------------------------------------------------------------------
\* Literals of get_penalty_details.py
\* ------------------------------------------------------------------------

TRAFFIC_HEADER == <<"t", "r", "a", "f", "f", "i", "c", " ", "p", "e", "n", "a", "l", "t", "i", "e", "s">>

RAILWAY_HEADER == <<"r", "a", "i", "l", "w", "a", "y", " ", "p", "e", "n", "a", "l", "t", "i", "e", "s">>

OTHER_OFFENCES == <<"o", "t", "h", "e", "r", " ", "o", "f", "f", "e", "n", "c", "e", "s">>

CAT_TRAFFIC == <<"t", "r", "a", "f", "f", "i", "c">>

CAT_RAILWAY == <<"r", "a", "i", "l", "w", "a", "y">>

CAT_RAILWAY_OTHER == <<"r", "a", "i", "l", "w", "a", "y", "-", "o", "t", "h", "e", "r">>

VALID_CATEGORIES == {CAT_TRAFFIC, CAT_RAILWAY, CAT_RAILWAY_OTHER}

PENALTY_PREFIX == <<"P", "e", "n", "a", "l", "t", "y", ":", " ">>

TEXT_SEPARATOR == <<" ", "|", " ">>

\* ------------------------------------------------------------------------
\* PenaltyRecord and the two parsers
\* ------------------------------------------------------------------------

PenaltyRecord(code, description, penalty, category) ==
    [code |-> code, description |-> description,
     penalty |-> penalty, category |-> category]

\* PenaltyRecord.as_text
as_text(record) ==
    LET parts == <<record.category, record.code, record.description>>
                    \o (IF record.penalty # <<>>
                        THEN <<PENALTY_PREFIX \o record.penalty>>
                        ELSE <<>>)
    IN  Join(TEXT_SEPARATOR, NonEmptyOnly(parts))

\* [part.strip() for part in line.split(",", 2)]
SplitFields(line) ==
    LET raw == Split(line, ",", 2)
    IN  [i \in 1..Len(raw) |-> Strip(raw[i])]

\* a faulty variant of TrafficLineRecords: a line without a comma is taken
\* for a description, as the railway parser does
TrafficLineRecords_SingleField(raw_line) ==
    LET line  == Strip(raw_line)
        parts == SplitFields(line)
    IN  IF line = <<>> THEN <<>>
        ELSE IF StartsWith(Lower(line), TRAFFIC_HEADER) THEN <<>>
        ELSE IF Len(parts) < 2 THEN <<PenaltyRecord(<<>>, parts[1], <<>>, CAT_TRAFFIC)>>
        ELSE <<PenaltyRecord(parts[1], parts[2],
                             IF Len(parts) = 3 THEN parts[3] ELSE <<>>,
                             CAT_TRAFFIC)>>

\* the body of the loop of _parse_traffic_records: the records one raw
\* line appends
TrafficLineRecords(raw_line) ==
    LET line  == Strip(raw_line)
        parts == SplitFields(line)
    IN  IF line = <<>> THEN <<>>
        ELSE IF StartsWith(Lower(line), TRAFFIC_HEADER) THEN <<>>
        ELSE IF Len(parts) < 2 THEN <<>>
        ELSE <<PenaltyRecord(parts[1], parts[2],
                             IF Len(parts) = 3 THEN parts[3] ELSE <<>>,
                             CAT_TRAFFIC)>>

RECURSIVE _parse_traffic_records(_)
_parse_traffic_records(lines) ==
    IF lines = <<>> THEN <<>>
    ELSE TrafficLineRecords(Head(lines)) \o _parse_traffic_records(Tail(lines))

\* the record a railway data line yields under the current category, or
\* no record
RailwayLineRecords(line, current_category) ==
    LET parts == SplitFields(line)
        code0 == IF Len(parts) = 1 THEN <<>> ELSE parts[1]
        desc0 == IF Len(parts) = 1 THEN parts[1]
                 ELSE IF Len(parts) > 1 THEN parts[2] ELSE <<>>
        pen   == IF Len(parts) > 2 THEN parts[3] ELSE <<>>
        swap  == desc0 = <<>> /\ code0 # <<>>
        code  == IF swap THEN <<>> ELSE code0
        desc  == IF swap THEN code0 ELSE desc0
    IN  IF desc = <<>> THEN <<>>
        ELSE <<PenaltyRecord(code, desc, pen, current_category)>>

\* a faulty variant of ParseRailwayFrom: the marker is compared without
\* lower-casing the line
RECURSIVE ParseRailwayFrom_CaseSensitive(_, _)
ParseRailwayFrom_CaseSensitive(lines, current_category) ==
    IF lines = <<>> THEN <<>>
    ELSE LET line       == Strip(Head(lines))
             normalized == Lower(line)
         IN  IF line = <<>>
             THEN ParseRailwayFrom_CaseSensitive(Tail(lines), current_category)
             ELSE IF StartsWith(normalized, RAILWAY_HEADER)
             THEN ParseRailwayFrom_CaseSensitive(Tail(lines), current_category)
             ELSE IF line = OTHER_OFFENCES
             THEN ParseRailwayFrom_CaseSensitive(Tail(lines), CAT_RAILWAY_OTHER)
             ELSE RailwayLineRecords(line, current_category)
                     \o ParseRailwayFrom_CaseSensitive(Tail(lines), current_category)

\* the loop of _parse_railway_records from a given current_category
RECURSIVE ParseRailwayFrom(_, _)
ParseRailwayFrom(lines, current_category) ==
    IF lines = <<>> THEN <<>>
    ELSE LET line       == Strip(Head(lines))
             normalized == Lower(line)
         IN  IF line = <<>>
             THEN ParseRailwayFrom(Tail(lines), current_category)
             ELSE IF StartsWith(normalized, RAILWAY_HEADER)
             THEN ParseRailwayFrom(Tail(lines), current_category)
             ELSE IF normalized = OTHER_OFFENCES
             THEN ParseRailwayFrom(Tail(lines), CAT_RAILWAY_OTHER)
             ELSE RailwayLineRecords(line, current_category)
                     \o ParseRailwayFrom(Tail(lines), current_category)

_parse_railway_records(lines) == ParseRailwayFrom(lines, CAT_RAILWAY)

\* ------------------------------------------------------------------------
\* Dataset files (data/traffic_penalties.txt, data/railway_penalties.txt)
\* ------------------------------------------------------------------------

L_TrafficTitle == <<"T", "r", "a", "f", "f", "i", "c", " ", "P", "e", "n", "a", "l", "t", "i", "e", "s">>

L_RailwayTitle == <<"R", "a", "i", "l", "w", "a", "y", " ", "P", "e", "n", "a", "l", "t", "i", "e", "s">>

L_OtherMarker == <<"O", "t", "h", "e", "r", " ", "O", "f", "f", "e", "n", "c", "e", "s">>

L_T1 == <<"a", ",", " ", "b", "c", ",", " ", "5">>

L_T1edit == <<"a", ",", " ", "b", "d", ",", " ", "5">>

L_T2 == <<"e", ",", "f", "g">>

L_T3 == <<"h", ",", "i", "a", ",", "2">>

L_Bad == <<"z", "z">>

L_R1 == <<"r", ",", "d", "e">>

L_R2 == <<" ", "f", "c", " ">>

TrafficLines == <<L_TrafficTitle, L_T1, L_Bad, L_T2>>

RailwayLines == <<L_RailwayTitle, L_R1, <<>>, L_OtherMarker, L_R2>>

\* a dataset version: the lines of the two files, or None for a file that
\* does not exist
Dataset(traffic, railway) == [traffic |-> traffic, railway |-> railway]

DS_Live == Dataset(Some(TrafficLines), Some(RailwayLines))

\* one description edited
DS_Edited ==
    Dataset(Some(<<L_TrafficTitle, L_T1edit, L_Bad, L_T2>>), Some(RailwayLines))

\* one more record
DS_Longer ==
    Dataset(Some(<<L_TrafficTitle, L_T1, L_T2, L_T3>>), Some(RailwayLines))

\* the same records in another order
DS_Reordered ==
    Dataset(Some(<<L_TrafficTitle, L_T2, L_T1>>), Some(RailwayLines))

\* no record in either file
DS_Empty ==
    Dataset(Some(<<L_TrafficTitle>>), Some(<<L_RailwayTitle, L_OtherMarker>>))

DS_NoTraffic == Dataset(None, Some(RailwayLines))

DS_NoRailway == Dataset(Some(TrafficLines), None)

\* a railway file that holds its title only
DS_TrafficOnly == Dataset(Some(<<L_TrafficTitle, L_T1, L_T2>>), Some(<<L_RailwayTitle>>))

\* what the deployment's data directory can hold
DatasetVersions == {DS_Live, DS_Empty, DS_NoTraffic, DS_NoRailway}

\* what the data directory can hold while the operator edits it under a
\* running process
ReloadVersions == {DS_Live, DS_Edited, DS_Reordered}

\* what another deployment sharing the cache can hold
ForeignVersions == {DS_Live, DS_Edited, DS_Longer, DS_Reordered}

\* the marker in another case and with blanks around it
L_OtherMarkerUpper == <<" ", "O", "T", "H", "E", "R", " ", "o", "f", "f", "e", "n", "c", "e", "s", " ">>

\* a line of separators only
L_Commas == <<",", ",">>

\* a traffic line with a code and nothing after the comma
L_CodeOnly == <<"a", ",">>

\* all files of at most n lines taken from a set of lines
FilesOf(lines, n) == UNION {[1..k -> lines] : k \in 0..n}

TrafficInputs ==
    FilesOf({L_TrafficTitle, L_T1, L_T2, L_Bad, L_CodeOnly, <<>>}, MaxLines)

RailwayInputs ==
    FilesOf({L_RailwayTitle, L_R1, L_R2, L_OtherMarker, L_OtherMarkerUpper, L_Commas},
            MaxLines)

\* the data directories given to the parsers: one file varies, the other
\* is the live one
ParseDatasets ==
    {Dataset(Some(t), Some(RailwayLines)) : t \in TrafficInputs}
        \cup {Dataset(Some(TrafficLines), Some(r)) : r \in RailwayInputs}

\* the data directories under which searches are examined
SearchDatasets == {DS_Longer, DS_TrafficOnly, DS_NoTraffic}

\* the records of _ensure_records_loaded for files that exist
ParseDataset(ds) ==
    _parse_traffic_records(Get(ds.traffic))
        \o _parse_railway_records(Get(ds.railway))

\* [record.as_text() for record in records]
TextsOf(records) == [i \in 1..Len(records) |-> as_text(records[i])]

\* ------------------------------------------------------------------------
\* JSON text of a list of strings (json.dumps / json.loads in utils/redis.py)
\* ------------------------------------------------------------------------

Quote == "\""

Backslash == "\\"

Fail == [ok |-> FALSE]

\* the characters of a string between the quotes, escaped
RECURSIVE JsonEscape(_)
JsonEscape(s) ==
    IF s = <<>> THEN <<>>
    ELSE (IF Head(s) \in {Quote, Backslash}
          THEN <<Backslash, Head(s)>>
          ELSE <<Head(s)>>) \o JsonEscape(Tail(s))

JsonString(s) == <<Quote>> \o JsonEscape(s) \o <<Quote>>

\* json.dumps(values) for a list of str: items separated by ", "
JsonDumps(values) ==
    <<"[">>
        \o Join(<<",", " ">>, [i \in 1..Len(values) |-> JsonString(values[i])])
        \o <<"]">>

\* the first position at or after i that holds no blank
RECURSIVE SkipWs(_, _)
SkipWs(t, i) ==
    IF i <= Len(t) /\ IsSpace(t[i]) THEN SkipWs(t, i + 1) ELSE i

\* the string whose opening quote is before position i
RECURSIVE ScanString(_, _, _)
ScanString(t, i, acc) ==
    IF i > Len(t) THEN Fail
    ELSE IF t[i] = Quote THEN [ok |-> TRUE, val |-> acc, next |-> i + 1]
    ELSE IF t[i] = Backslash
    THEN IF i + 1 <= Len(t) /\ t[i + 1] \in {Quote, Backslash}
         THEN ScanString(t, i + 2, Append(acc, t[i + 1]))
         ELSE Fail
    ELSE ScanString(t, i + 1, Append(acc, t[i]))

\* the items of a list from position i on, up to the closing bracket
RECURSIVE ScanItems(_, _, _)
ScanItems(t, i, acc) ==
    LET j == SkipWs(t, i)
    IN  IF j > Len(t) \/ t[j] # Quote THEN Fail
        ELSE LET r == ScanString(t, j + 1, <<>>)
             IN  IF ~r.ok THEN Fail
                 ELSE LET k == SkipWs(t, r.next)
                      IN  IF k > Len(t) THEN Fail
                          ELSE IF t[k] = "," THEN ScanItems(t, k + 1, Append(acc, r.val))
                          ELSE IF t[k] = "]" /\ SkipWs(t, k + 1) > Len(t)
                          THEN [ok |-> TRUE, val |-> Append(acc, r.val)]
                          ELSE Fail

\* json.loads(text) for the JSON text of a list of strings; any other text
\* of the model is malformed JSON, for which json.loads raises
JsonLoads(t) ==
    LET i == SkipWs(t, 1)
    IN  IF i > Len(t) \/ t[i] # "[" THEN Fail
        ELSE LET j == SkipWs(t, i + 1)
             IN  IF j <= Len(t) /\ t[j] = "]" /\ SkipWs(t, j + 1) > Len(t)
                 THEN [ok |-> TRUE, val |-> <<>>]
                 ELSE ScanItems(t, i + 1, <<>>)

\* ------------------------------------------------------------------------
\* float32 matrices and their byte buffers
\* ------------------------------------------------------------------------

\* a float32 is its four bytes, least significant first: 0.0, 1.0, -1.0
F32_ZERO == <<0, 0, 0, 0>>

F32_ONE == <<0, 0, 128, 63>>

F32_NEG_ONE == <<0, 0, 128, 191>>

RECURSIVE Flatten(_)
Flatten(seqs) ==
    IF seqs = <<>> THEN <<>> ELSE Head(seqs) \o Flatten(Tail(seqs))

\* embeddings.cpu().numpy().tobytes(): row-major, 4 bytes per cell
ToBytes(matrix) == Flatten(Flatten(matrix))

\* np.frombuffer(buffer, dtype=np.float32): raises unless the size is a
\* multiple of 4
FromBuffer(buffer) ==
    IF Len(buffer) % 4 # 0 THEN Fail
    ELSE [ok  |-> TRUE,
          val |-> [k \in 1..(Len(buffer) \div 4) |->
                      SubSeq(buffer, 4 * k - 3, 4 * k)]]

\* a faulty variant of Reshape: reshape((-1, cols)), which takes whatever
\* number of rows the buffer holds
Reshape_InferRows(cells, rows, cols) ==
    IF Len(cells) % cols # 0 THEN Fail
    ELSE [ok  |-> TRUE,
          val |-> [r \in 1..(Len(cells) \div cols) |->
                      [j \in 1..cols |-> cells[(r - 1) * cols + j]]]]

\* ndarray.reshape((rows, cols)): raises unless the sizes agree
Reshape(cells, rows, cols) ==
    IF Len(cells) # rows * cols THEN Fail
    ELSE [ok  |-> TRUE,
          val |-> [r \in 1..rows |-> [j \in 1..cols |-> cells[(r - 1) * cols + j]]]]

\* ------------------------------------------------------------------------
\* The embedding model (SentenceTransformer), a deterministic black box
\* ------------------------------------------------------------------------

Alphabet == <<"a", "b", "c", "d", "e", "f", "g", "h", "i", "j", "k", "l", "m", "n", "o", "p", "q", "r", "s", "t", "u", "v", "w", "x", "y", "z", "0", "1", "2", "3", "4", "5", "6", "7", "8", "9", " ", ",", "|", ":", "-", "T", "P", "R", "O", "[", "]", "\"", "\\">>

Ord(c) == CHOOSE i \in 1..Len(Alphabet) : Alphabet[i] = c

RECURSIVE TextHash(_)
TextHash(s) ==
    IF s = <<>> THEN 0
    ELSE (31 * TextHash(SubSeq(s, 1, Len(s) - 1)) + Ord(s[Len(s)])) % 2^16

\* a model object: every run of the constructor makes a new one
SentenceTransformer(id) == [id |-> id, dim |-> Dim]

\* the normalized vector of one text: a signed unit vector along one axis
EncodeText(text, dim) ==
    LET h    == TextHash(text)
        axis == (h % dim) + 1
        sign == IF (h \div dim) % 2 = 0 THEN F32_ONE ELSE F32_NEG_ONE
    IN  [j \in 1..dim |-> IF j = axis THEN sign ELSE F32_ZERO]

\* model.encode(texts, normalize_embeddings=True)
Encode(texts, dim) == [i \in 1..Len(texts) |-> EncodeText(texts[i], dim)]

\* ------------------------------------------------------------------------
\* utils/redis.py
\* ------------------------------------------------------------------------

\* the two keys values:<key> and embeddings:<key>; None for an absent key
CacheEntry(values_json, embeddings_bytes) ==
    [values |-> values_json, embeddings |-> embeddings_bytes]

EmptyCache == CacheEntry(None, None)

\* what store_embeddings puts in the pipeline
StorePayload(values, embeddings) ==
    CacheEntry(Some(JsonDumps(values)), Some(ToBytes(embeddings)))

Miss == [values |-> None, embeddings |-> None]

\* bytes and str are falsy when absent or empty
Falsy(x) == x = None \/ Get(x) = <<>>

\* get_cached_embeddings after pipeline.execute() returned the two values
GetCachedResult(values_json, embeddings_bytes, model) ==
    IF Falsy(values_json) \/ Falsy(embeddings_bytes) THEN Miss
    ELSE LET parsed == JsonLoads(Get(values_json))
         IN  IF ~parsed.ok THEN Miss
             ELSE LET cells == FromBuffer(Get(embeddings_bytes))
                  IN  IF ~cells.ok THEN Miss
                      ELSE LET shaped == Reshape(cells.val, Len(parsed.val), model.dim)
                           IN  IF ~shaped.ok THEN Miss
                               ELSE [values     |-> Some(parsed.val),
                                     embeddings |-> Some(shaped.val)]

\* a stale or damaged entry another deployment or the store can leave under
\* CACHE_KEY before this process reads it
ForeignTexts(ds) == TextsOf(ParseDataset(ds))

InitialCaches ==
    {EmptyCache}
        \cup {StorePayload(ForeignTexts(ds), Encode(ForeignTexts(ds), Dim)) :
                ds \in ForeignVersions}
        \cup {\* a model of another dimensionality under the same key
              StorePayload(ForeignTexts(DS_Live), Encode(ForeignTexts(DS_Live), Dim + 1)),
              \* one of the two keys evicted
              CacheEntry(Some(JsonDumps(ForeignTexts(DS_Live))), None),
              \* JSON text cut short
              CacheEntry(Some(SubSeq(JsonDumps(ForeignTexts(DS_Live)), 1, 9)),
                         Some(ToBytes(Encode(ForeignTexts(DS_Live), Dim)))),
              \* byte buffer cut short
              CacheEntry(Some(JsonDumps(ForeignTexts(DS_Live))),
                         Some(Tail(ToBytes(Encode(ForeignTexts(DS_Live), Dim)))))}

\* a faulty variant of get_cached_embeddings: without the try/except, a
\* failure of pipeline.execute() reaches the caller
get_cached_embeddings_Unguarded(store, model, fault) ==
    LET got == IF fault THEN Miss
               ELSE GetCachedResult(store.values, store.embeddings, model)
    IN  [raised |-> fault, values |-> got.values, embeddings |-> got.embeddings]

\* get_cached_embeddings: every exception of the body is caught and turned
\* into a miss; fault is a failure of pipeline.execute()
get_cached_embeddings(store, model, fault) ==
    LET got == IF fault THEN Miss
               ELSE GetCachedResult(store.values, store.embeddings, model)
    IN  [raised |-> FALSE, values |-> got.values, embeddings |-> got.embeddings]

\* a faulty variant of store_embeddings: two separate SETs, of which a
\* failure lets only the first through
store_embeddings_TwoSets(store, payload, fault) ==
    [raised |-> FALSE,
     store  |-> IF fault THEN [store EXCEPT !.values = payload.values] ELSE payload]

\* store_embeddings: the pipeline sets both keys in one execute(); every
\* exception is caught; the result is the store afterwards
store_embeddings(store, payload, fault) ==
    [raised |-> FALSE, store |-> IF fault THEN store ELSE payload]

\* ------------------------------------------------------------------------
\* get_penalty_details.py: loading, warm-up and search
\* ------------------------------------------------------------------------

\* a faulty variant of _ensure_records_loaded: the traffic records are
\* assigned to the global before the railway file has been read
_ensure_records_loaded_EarlyAssign(records, texts, ds) ==
    IF records # <<>>
    THEN [err |-> None, records |-> records, texts |-> texts]
    ELSE IF ds.traffic = None
    THEN [err |-> Some("FileNotFoundError"), records |-> records, texts |-> texts]
    ELSE IF ds.railway = None
    THEN [err     |-> Some("FileNotFoundError"),
          records |-> _parse_traffic_records(Get(ds.traffic)),
          texts   |-> texts]
    ELSE LET parsed == ParseDataset(ds)
         IN  IF parsed = <<>>
             THEN [err |-> Some("RuntimeError"), records |-> records, texts |-> texts]
             ELSE [err |-> None, records |-> parsed, texts |-> TextsOf(parsed)]

\* a faulty variant of _ensure_records_loaded: files without a record are
\* accepted
_ensure_records_loaded_EmptyAccepted(records, texts, ds) ==
    IF records # <<>>
    THEN [err |-> None, records |-> records, texts |-> texts]
    ELSE IF ds.traffic = None \/ ds.railway = None
    THEN [err |-> Some("FileNotFoundError"), records |-> records, texts |-> texts]
    ELSE LET parsed == ParseDataset(ds)
         IN  [err |-> None, records |-> parsed, texts |-> TextsOf(parsed)]

\* a faulty variant of _ensure_records_loaded: no early return, the files
\* are parsed on every call
_ensure_records_loaded_Reloads(records, texts, ds) ==
    IF ds.traffic = None \/ ds.railway = None
    THEN [err |-> Some("FileNotFoundError"), records |-> records, texts |-> texts]
    ELSE LET parsed == ParseDataset(ds)
         IN  IF parsed = <<>>
             THEN [err |-> Some("RuntimeError"), records |-> records, texts |-> texts]
             ELSE [err |-> None, records |-> parsed, texts |-> TextsOf(parsed)]

\* _load_text_file and _ensure_records_loaded: the two globals afterwards
\* and the exception raised, if any
_ensure_records_loaded(records, texts, ds) ==
    IF records # <<>>
    THEN [err |-> None, records |-> records, texts |-> texts]
    ELSE IF ds.traffic = None \/ ds.railway = None
    THEN [err |-> Some("FileNotFoundError"), records |-> records, texts |-> texts]
    ELSE LET parsed == ParseDataset(ds)
         IN  IF parsed = <<>>
             THEN [err |-> Some("RuntimeError"), records |-> records, texts |-> texts]
             ELSE [err |-> None, records |-> parsed, texts |-> TextsOf(parsed)]

\* _compute_embeddings once model.encode has completed; fault is a failure
\* of the encoder, which is not caught
_compute_embeddings(model, texts, fault) ==
    IF fault THEN [raised |-> TRUE, embeddings |-> <<>>]
    ELSE [raised |-> FALSE, embeddings |-> Encode(texts, model.dim)]

\* a faulty variant of Published: the global is assigned whatever the
\* encoder run left behind
Published_OnFailure(current, computed) == Some(computed.embeddings)

\* PENALTY_EMBEDDINGS after "embeddings = await _compute_embeddings(...)"
\* and the assignment that follows it: an exception skips the assignment
Published(current, computed) ==
    IF computed.raised THEN current ELSE Some(computed.embeddings)

\* a faulty variant of AlreadyReady: the test on force inverted
AlreadyReady_Inverted(embeddings, force) == embeddings # None /\ force

\* the early return of ensure_penalty_embeddings
AlreadyReady(embeddings, force) == embeddings # None /\ ~force

\* a faulty variant of ReadsCache: a forced call reads the cache too
ReadsCache_IgnoresForce(force, redis) == redis

\* whether ensure_penalty_embeddings consults the cache
ReadsCache(force, redis) == ~force /\ redis

\* a faulty variant of CacheHit: any decodable entry is adopted
CacheHit_TruthyOnly(cached_values, cached_embeddings, texts) ==
    ~Falsy(cached_values) /\ cached_embeddings # None

\* a faulty variant of CacheHit: the lengths are compared, the texts are not
CacheHit_LengthOnly(cached_values, cached_embeddings, texts) ==
    /\ ~Falsy(cached_values)
    /\ cached_embeddings # None
    /\ Len(Get(cached_values)) = Len(texts)

\* the test under which ensure_penalty_embeddings adopts the cached matrix
CacheHit(cached_values, cached_embeddings, texts) ==
    /\ ~Falsy(cached_values)
    /\ cached_embeddings # None
    /\ Len(Get(cached_values)) = Len(texts)
    /\ Get(cached_values) = texts

\* the positions of the elements of a sequence that satisfy a test
RECURSIVE IndicesFrom(_, _, _)
IndicesFrom(records, targets, i) ==
    IF i > Len(records) THEN <<>>
    ELSE (IF records[i].category \in targets THEN <<i>> ELSE <<>>)
            \o IndicesFrom(records, targets, i + 1)

\* a faulty variant of _select_indices: "railway" is not widened to the two
\* railway categories
_select_indices_NotWidened(category, records) ==
    IF Falsy(category)
    THEN [ok |-> TRUE, val |-> [i \in 1..Len(records) |-> i]]
    ELSE LET normalized == Lower(Strip(Get(category)))
         IN  IF normalized \notin VALID_CATEGORIES /\ normalized # CAT_RAILWAY
             THEN Fail
             ELSE [ok |-> TRUE, val |-> IndicesFrom(records, {normalized}, 1)]

\* _select_indices: 1-based positions; ok is FALSE for the ValueError
_select_indices(category, records) ==
    IF Falsy(category)
    THEN [ok |-> TRUE, val |-> [i \in 1..Len(records) |-> i]]
    ELSE LET normalized == Lower(Strip(Get(category)))
         IN  IF normalized \notin VALID_CATEGORIES /\ normalized # CAT_RAILWAY
             THEN Fail
             ELSE [ok  |-> TRUE,
                   val |-> IndicesFrom(records,
                               IF normalized = CAT_RAILWAY
                               THEN {CAT_RAILWAY, CAT_RAILWAY_OTHER}
                               ELSE {normalized},
                               1)]

\* x or None
OrNone(x) == IF x = <<>> THEN None ELSE Some(x)

\* _format_record; a score of the model is -1, 0 or 1, which round(_, 4)
\* leaves as it is
_format_record(record, similarity) ==
    [code        |-> OrNone(record.code),
     description |-> OrNone(record.description),
     penalty     |-> OrNone(record.penalty),
     category    |-> record.category,
     similarity  |-> similarity]

\* the value of a float32 of the model
F32Value(cell) ==
    IF cell = F32_ONE THEN 1 ELSE IF cell = F32_NEG_ONE THEN 0 - 1 ELSE 0

RECURSIVE Dot(_, _)
Dot(u, v) ==
    IF u = <<>> \/ v = <<>> THEN 0
    ELSE F32Value(Head(u)) * F32Value(Head(v)) + Dot(Tail(u), Tail(v))

\* torch.matmul(embeddings_subset, query_vector)
Scores(rows, query_vector) == [i \in 1..Len(rows) |-> Dot(rows[i], query_vector)]

Min(a, b) == IF a <= b THEN a ELSE b

\* torch.topk(scores, k): every answer it can give: k distinct positions,
\* by non-increasing score, none left out that scores higher; the order
\* among equal scores is not defined by torch
TopK(scores, k) ==
    {top \in [1..k -> 1..Len(scores)] :
        /\ \A a, b \in 1..k : a < b => top[a] # top[b] /\ scores[top[a]] >= scores[top[b]]
        /\ \A j \in 1..Len(scores) :
              (\A a \in 1..k : top[a] # j) => \A a \in 1..k : scores[j] <= scores[top[a]]}

\* "all" for no category
CategoryOrAll(category) == IF Falsy(category) THEN <<"a", "l", "l">> ELSE Get(category)

\* a faulty variant of SearchResult: a position in the subset is taken for a
\* position in PENALTY_RECORDS
SearchResult_SubsetPositions(args, records, indices, scores, top) ==
    [query            |-> args.query,
     category         |-> CategoryOrAll(args.category),
     matched          |-> Len(top),
     total_candidates |-> Len(indices),
     results          |-> [i \in 1..Len(top) |->
                              _format_record(records[top[i]], scores[top[i]])],
     notes            |-> None]

\* the dict returned for a non-empty subset
SearchResult(args, records, indices, scores, top) ==
    [query            |-> args.query,
     category         |-> CategoryOrAll(args.category),
     matched          |-> Len(top),
     total_candidates |-> Len(indices),
     results          |-> [i \in 1..Len(top) |->
                              _format_record(records[indices[top[i]]], scores[top[i]])],
     notes            |-> None]

\* the dict returned for an empty subset
EmptyResult(args) ==
    [query    |-> args.query,
     category |-> CategoryOrAll(args.category),
     results  |-> <<>>,
     notes    |-> Some("No penalty entries available for the requested category.")]

\* ------------------------------------------------------------------------
\* State
\* ------------------------------------------------------------------------

VARIABLES
    files,               \* the data directory: the current dataset version
    redis_client,        \* app_state.redis_client is not None
    cache,               \* the two keys of CACHE_KEY in the store
    MODEL,               \* module global: None or the model object
    PENALTY_RECORDS,     \* module global
    PENALTY_TEXTS,       \* module global
    PENALTY_EMBEDDINGS,  \* module global: None or the matrix
    pc,                  \* where each caller's coroutine is suspended
    call,                \* the arguments of each caller's current call
    local,               \* the locals a coroutine keeps across its awaits
    hist,                \* per call: what it has done so far
    calls,               \* calls started so far
    faults,              \* model and encoder faults so far
    constructions,       \* runs of the SentenceTransformer constructor
    computations,        \* runs of _compute_embeddings for non-forced calls
    event                \* the last step, and the call that ended in it

vars ==
    <<files, redis_client, cache, MODEL, PENALTY_RECORDS, PENALTY_TEXTS,
      PENALTY_EMBEDDINGS, pc, call, local, hist, calls, faults,
      constructions, computations, event>>

Callers == 1..NumCallers

Q_Empty == <<>>

Q_Blank == <<" ">>

Q_Text == <<"b", "c">>

CAT_BOGUS == <<"b", "u", "s">>

EnsureCall(force) ==
    [kind |-> "ensure", force |-> force, query |-> Q_Empty, top_k |-> 0,
     category |-> None]

SearchCall(query, top_k, category) ==
    [kind |-> "search", force |-> FALSE, query |-> query, top_k |-> top_k,
     category |-> category]

\* the warm-up that lifespan awaits at process start-up
LifespanCall ==
    [kind |-> "lifespan", force |-> FALSE, query |-> Q_Empty, top_k |-> 0,
     category |-> None]

\* the calls the callers make
CallInputs ==
    {EnsureCall(FALSE), EnsureCall(TRUE),
     SearchCall(Q_Blank, 1, None),
     SearchCall(Q_Text, 1, Some(CAT_BOGUS)),
     SearchCall(Q_Text, 2, None)}

Q_R == <<"r">>

\* searches of every kind: rejected arguments, every category filter, a
\* top_k below and above the number of candidates
SearchInputs ==
    {SearchCall(Q_Empty, 1, None),
     SearchCall(Q_R, 0, None),
     SearchCall(Q_R, 1, Some(CAT_BOGUS)),
     SearchCall(Q_R, 2, None),
     SearchCall(Q_R, 2, Some(CAT_TRAFFIC)),
     SearchCall(Q_R, 2, Some(CAT_RAILWAY)),
     SearchCall(Q_R, 2, Some(CAT_RAILWAY_OTHER))}

NoCall ==
    [kind |-> "none", force |-> FALSE, query |-> Q_Empty, top_k |-> 0,
     category |-> None]

Locals(model, payload, indices, subset) ==
    [model |-> model, payload |-> payload, indices |-> indices, subset |-> subset]

EmptyLocal == Locals(None, None, <<>>, <<>>)

\* what a call has done so far: whether the matrix was set when it began,
\* its completed cache reads, encoder runs and cache writes, and how many
\* of its cache operations failed
NoHist == [ready |-> FALSE, reads |-> 0, encodes |-> 0, writes |-> 0, cfaults |-> 0]

\* a step of caller c: op names the action, what the environment did in it
\* ("none", "fault" for a model or encoder failure, "cache_fault" for a
\* failure of the store); how is "pending" while the call goes on, else
\* "ok" or the exception it raised; value is what it returned
Event(op, c, what, how, value, args, h) ==
    [op |-> op, caller |-> c, what |-> what, how |-> how, value |-> value,
     args |-> args, hist |-> h]

NoEvent(op) == Event(op, 0, "none", "pending", None, NoCall, NoHist)

\* the step a continuation belongs to
Step(c, args, op, what, h) == [c |-> c, args |-> args, op |-> op, what |-> what, hist |-> h]

Init ==
    /\ files \in DatasetVersions
    /\ redis_client \in BOOLEAN
    /\ cache \in (IF redis_client THEN InitialCaches ELSE {EmptyCache})
    /\ MODEL = None
    /\ PENALTY_RECORDS = <<>>
    /\ PENALTY_TEXTS = <<>>
    /\ PENALTY_EMBEDDINGS = None
    /\ pc = [c \in Callers |-> "idle"]
    /\ call = [c \in Callers |-> NoCall]
    /\ local = [c \in Callers |-> EmptyLocal]
    /\ hist = [c \in Callers |-> NoHist]
    /\ calls = 0
    /\ faults = 0
    /\ constructions = 0
    /\ computations = 0
    /\ event = NoEvent("init")

\* ------------------------------------------------------------------------
\* Where a coroutine goes next: each of these sets pc, call, local, hist,
\* constructions, computations and event
\* ------------------------------------------------------------------------

\* the line lifespan prints when the warm-up raised
WARMUP_FAILED == "Penalty embedding warmup failed"

\* a faulty variant of lifespan: the exception of the warm-up is not caught
\* and the process ends
lifespan_Uncaught(kind, how, value) ==
    IF kind = "lifespan" /\ how # "ok"
    THEN [pc |-> "crashed", how |-> how, value |-> value]
    ELSE [pc |-> "idle", how |-> how, value |-> value]

\* what the caller of a coroutine that ended with how and value makes of
\* it.  The try/except of lifespan (app.py 36-41) turns every exception of
\* the warm-up into a printed line and goes on to the yield; any other
\* caller sees the outcome as it is
lifespan(kind, how, value) ==
    IF kind = "lifespan" /\ how # "ok"
    THEN [pc |-> "idle", how |-> "ok", value |-> Some(WARMUP_FAILED)]
    ELSE [pc |-> "idle", how |-> how, value |-> value]

\* the call returns value, or raises (how names the exception)
Return(x, how, value) ==
    LET out == lifespan(x.args.kind, how, value)
    IN  /\ pc' = [pc EXCEPT ![x.c] = out.pc]
        /\ call' = [call EXCEPT ![x.c] = NoCall]
        /\ local' = [local EXCEPT ![x.c] = EmptyLocal]
        /\ hist' = [hist EXCEPT ![x.c] = NoHist]
        /\ event' = Event(x.op, x.c, x.what, out.how, out.value, x.args, x.hist)
        /\ UNCHANGED <<constructions, computations>>

\* the coroutine awaits at where
Goto(x, where, loc, ncons, ncomp) ==
    /\ pc' = [pc EXCEPT ![x.c] = where]
    /\ call' = [call EXCEPT ![x.c] = x.args]
    /\ local' = [local EXCEPT ![x.c] = loc]
    /\ hist' = [hist EXCEPT ![x.c] = x.hist]
    /\ event' = Event(x.op, x.c, x.what, "pending", None, x.args, x.hist)
    /\ constructions' = ncons
    /\ computations' = ncomp

Suspend(x, where, loc) == Goto(x, where, loc, constructions, computations)

\* _load_model with MODEL unset: the constructor starts in a thread
StartModelLoad(x, where) ==
    Goto(x, where, EmptyLocal, constructions + 1, computations)

\* a faulty variant of SearchSelect: no early return for an empty subset
SearchSelect_NoEmptyReturn(x, embeddings, model, records) ==
    LET sel == _select_indices(x.args.category, records)
    IN  IF ~sel.ok THEN Return(x, "ValueError", None)
        ELSE IF embeddings = None THEN Return(x, "TypeError", None)
        ELSE IF \E k \in 1..Len(sel.val) : sel.val[k] > Len(Get(embeddings))
        THEN Return(x, "IndexError", None)
        ELSE Suspend(x, "query_encode",
                     Locals(Some(model), None, sel.val,
                            [k \in 1..Len(sel.val) |-> Get(embeddings)[sel.val[k]]]))

\* lines 350-359 of penalty_semantic_lookup, up to the await of the query
\* encoding
SearchSelect(x, embeddings, model, records) ==
    LET sel == _select_indices(x.args.category, records)
    IN  IF ~sel.ok THEN Return(x, "ValueError", None)
        ELSE IF sel.val = <<>> THEN Return(x, "ok", Some(EmptyResult(x.args)))
        ELSE IF embeddings = None THEN Return(x, "TypeError", None)
        ELSE IF \E k \in 1..Len(sel.val) : sel.val[k] > Len(Get(embeddings))
        THEN Return(x, "IndexError", None)
        ELSE Suspend(x, "query_encode",
                     Locals(Some(model), None, sel.val,
                            [k \in 1..Len(sel.val) |-> Get(embeddings)[sel.val[k]]]))

\* a faulty variant of EnsureReturned: _load_model constructs a model
\* whether or not MODEL is set
EnsureReturned_ReloadsModel(x, embeddings, model, records) ==
    IF x.args.kind # "search" THEN Return(x, "ok", None)
    ELSE IF embeddings = None THEN Return(x, "RuntimeError", None)
    ELSE StartModelLoad(x, "search_load_model")

\* ensure_penalty_embeddings has returned: its caller goes on
\* (lines 345-348 of penalty_semantic_lookup)
EnsureReturned(x, embeddings, model, records) ==
    IF x.args.kind # "search" THEN Return(x, "ok", None)
    ELSE IF embeddings = None THEN Return(x, "RuntimeError", None)
    ELSE IF model = None THEN StartModelLoad(x, "search_load_model")
    ELSE SearchSelect(x, embeddings, Get(model), records)

\* _compute_embeddings up to the await of model.encode
ToCompute(x, model, texts) ==
    IF texts = <<>> THEN Return(x, "ValueError", None)
    ELSE Goto(x, "encode", Locals(Some(model), None, <<>>, <<>>), constructions,
              IF x.args.force THEN computations ELSE computations + 1)

\* ensure_penalty_embeddings once _load_model has returned model
AfterModel(x, model, texts) ==
    IF ReadsCache(x.args.force, redis_client)
    THEN Suspend(x, "cache_read", Locals(Some(model), None, <<>>, <<>>))
    ELSE ToCompute(x, model, texts)

\* ensure_penalty_embeddings once the records are loaded
EnsureEntry(x, records, texts) ==
    IF AlreadyReady(PENALTY_EMBEDDINGS, x.args.force)
    THEN EnsureReturned(x, PENALTY_EMBEDDINGS, MODEL, records)
    ELSE IF MODEL = None THEN StartModelLoad(x, "load_model")
    ELSE AfterModel(x, Get(MODEL), texts)

\* ------------------------------------------------------------------------
\* Actions: the code between two suspension points of one coroutine
\* ------------------------------------------------------------------------

\* a caller starts ensure_penalty_embeddings(force) or
\* penalty_semantic_lookup(query, top_k, category); the coroutine runs to
\* its first await.  Coroutines are interchangeable: a new call takes the
\* lowest free slot
CallWith(c, inputs) ==
    /\ pc[c] = "idle"
    /\ \A d \in Callers : d < c => pc[d] # "idle"
    /\ calls < MaxCalls
    /\ \E args \in inputs :
          LET x == Step(c, args, "call", "none",
                        [NoHist EXCEPT !.ready = PENALTY_EMBEDDINGS # None])
          IN  IF args.kind = "search" /\ (args.query = <<>> \/ Strip(args.query) = <<>>)
              THEN /\ Return(x, "ValueError", None)
                   /\ UNCHANGED <<PENALTY_RECORDS, PENALTY_TEXTS>>
              ELSE IF args.kind = "search" /\ args.top_k <= 0
              THEN /\ Return(x, "ValueError", None)
                   /\ UNCHANGED <<PENALTY_RECORDS, PENALTY_TEXTS>>
              ELSE LET loaded == _ensure_records_loaded(PENALTY_RECORDS,
                                                        PENALTY_TEXTS, files)
                   IN  /\ PENALTY_RECORDS' = loaded.records
                       /\ PENALTY_TEXTS' = loaded.texts
                       /\ IF loaded.err # None
                          THEN Return(x, Get(loaded.err), None)
                          ELSE EnsureEntry(x, loaded.records, loaded.texts)
    /\ calls' = calls + 1
    /\ UNCHANGED <<files, redis_client, cache, MODEL, PENALTY_EMBEDDINGS, faults>>

Call(c) == CallWith(c, CallInputs)

\* asyncio.to_thread(SentenceTransformer, MODEL_NAME) completes
ModelLoaded(c) ==
    /\ pc[c] \in {"load_model", "search_load_model"}
    /\ \/ LET x == Step(c, call[c], "model_loaded", "none", hist[c])
          IN  /\ MODEL' = Some(SentenceTransformer(IF MODEL = None THEN 1
                                                    ELSE Get(MODEL).id + 1))
              /\ IF pc[c] = "load_model"
                 THEN AfterModel(x, Get(MODEL'), PENALTY_TEXTS)
                 ELSE SearchSelect(x, PENALTY_EMBEDDINGS, Get(MODEL'),
                                   PENALTY_RECORDS)
              /\ UNCHANGED faults
       \/ /\ faults < MaxFaults
          /\ faults' = faults + 1
          /\ Return(Step(c, call[c], "model_loaded", "fault", hist[c]),
                    "ModelLoadError", None)
          /\ UNCHANGED MODEL
    /\ UNCHANGED <<files, redis_client, cache, PENALTY_RECORDS, PENALTY_TEXTS,
                   PENALTY_EMBEDDINGS, calls>>

\* get_cached_embeddings completes (lines 171-180)
CacheRead(c) ==
    /\ pc[c] = "cache_read"
    /\ \E fault \in BOOLEAN :
          LET got == get_cached_embeddings(cache, Get(local[c].model), fault)
              x   == Step(c, call[c], "cache_read",
                          IF fault THEN "cache_fault" ELSE "none",
                          [hist[c] EXCEPT !.reads = @ + 1,
                                          !.cfaults = IF fault THEN @ + 1 ELSE @])
          IN  IF got.raised
              THEN /\ Return(x, "CacheError", None)
                   /\ UNCHANGED PENALTY_EMBEDDINGS
              ELSE IF CacheHit(got.values, got.embeddings, PENALTY_TEXTS)
              THEN /\ PENALTY_EMBEDDINGS' = got.embeddings
                   /\ EnsureReturned(x, got.embeddings, MODEL, PENALTY_RECORDS)
              ELSE /\ ToCompute(x, Get(local[c].model), PENALTY_TEXTS)
                   /\ UNCHANGED PENALTY_EMBEDDINGS
    /\ UNCHANGED <<files, redis_client, cache, MODEL, PENALTY_RECORDS,
                   PENALTY_TEXTS, calls, faults>>

\* a faulty variant of Encoded: the matrix is published and never stored
Encoded_NoWrite(c) ==
    /\ pc[c] = "encode"
    /\ \E fault \in BOOLEAN :
          LET computed == _compute_embeddings(Get(local[c].model), PENALTY_TEXTS, fault)
              x == Step(c, call[c], "encoded", IF fault THEN "fault" ELSE "none",
                        [hist[c] EXCEPT !.encodes = @ + 1])
          IN  /\ fault => faults < MaxFaults
              /\ faults' = IF fault THEN faults + 1 ELSE faults
              /\ PENALTY_EMBEDDINGS' = Published(PENALTY_EMBEDDINGS, computed)
              /\ IF computed.raised THEN Return(x, "EncodingError", None)
                 ELSE EnsureReturned(x, PENALTY_EMBEDDINGS', MODEL, PENALTY_RECORDS)
    /\ UNCHANGED <<files, redis_client, cache, MODEL, PENALTY_RECORDS,
                   PENALTY_TEXTS, calls>>

\* model.encode of the corpus completes (lines 182-186): the matrix is
\* published and, with a cache client, store_embeddings runs to its await
Encoded(c) ==
    /\ pc[c] = "encode"
    /\ \E fault \in BOOLEAN :
          LET computed == _compute_embeddings(Get(local[c].model), PENALTY_TEXTS, fault)
              x == Step(c, call[c], "encoded", IF fault THEN "fault" ELSE "none",
                        [hist[c] EXCEPT !.encodes = @ + 1])
          IN  /\ fault => faults < MaxFaults
              /\ faults' = IF fault THEN faults + 1 ELSE faults
              /\ PENALTY_EMBEDDINGS' = Published(PENALTY_EMBEDDINGS, computed)
              /\ IF computed.raised THEN Return(x, "EncodingError", None)
                 ELSE IF redis_client
                 THEN Suspend(x, "cache_write",
                              [local[c] EXCEPT !.payload =
                                  Some(StorePayload(PENALTY_TEXTS, computed.embeddings))])
                 ELSE EnsureReturned(x, PENALTY_EMBEDDINGS', MODEL, PENALTY_RECORDS)
    /\ UNCHANGED <<files, redis_client, cache, MODEL, PENALTY_RECORDS,
                   PENALTY_TEXTS, calls>>

\* pipeline.execute() of store_embeddings completes
CacheWritten(c) ==
    /\ pc[c] = "cache_write"
    /\ \E fault \in BOOLEAN :
          LET done == store_embeddings(cache, Get(local[c].payload), fault)
              x    == Step(c, call[c], "cache_written",
                           IF fault THEN "cache_fault" ELSE "none",
                           [hist[c] EXCEPT !.writes = @ + 1,
                                           !.cfaults = IF fault THEN @ + 1 ELSE @])
          IN  /\ cache' = done.store
              /\ IF done.raised
                 THEN Return(x, "CacheError", None)
                 ELSE EnsureReturned(x, PENALTY_EMBEDDINGS, MODEL, PENALTY_RECORDS)
    /\ UNCHANGED <<files, redis_client, MODEL, PENALTY_RECORDS, PENALTY_TEXTS,
                   PENALTY_EMBEDDINGS, calls, faults>>

\* model.encode([query]) completes (lines 361-386)
QueryEncoded(c) ==
    /\ pc[c] = "query_encode"
    /\ \/ LET query_vector == EncodeText(call[c].query, Get(local[c].model).dim)
              scores       == Scores(local[c].subset, query_vector)
              k            == Min(call[c].top_k, Len(local[c].indices))
          IN  /\ \E top \in TopK(scores, k) :
                    Return(Step(c, call[c], "query_encoded", "none", hist[c]),
                           "ok",
                           Some(SearchResult(call[c], PENALTY_RECORDS,
                                             local[c].indices, scores, top)))
              /\ UNCHANGED faults
       \/ /\ faults < MaxFaults
          /\ faults' = faults + 1
          /\ Return(Step(c, call[c], "query_encoded", "fault", hist[c]),
                    "EncodingError", None)
    /\ UNCHANGED <<files, redis_client, cache, MODEL, PENALTY_RECORDS,
                   PENALTY_TEXTS, PENALTY_EMBEDDINGS, calls>>

\* the operator replaces the dataset files; once the records are loaded the
\* files are never read again, so later replacements are not modelled
DatasetChangeWithin(versions) ==
    /\ PENALTY_RECORDS = <<>>
    /\ \E ds \in versions \ {files} : files' = ds
    /\ event' = NoEvent("dataset_change")
    /\ UNCHANGED <<redis_client, cache, MODEL, PENALTY_RECORDS, PENALTY_TEXTS,
                   PENALTY_EMBEDDINGS, pc, call, local, hist, calls, faults,
                   constructions, computations>>

DatasetChange == DatasetChangeWithin(DatasetVersions)

\* both keys were set with ex=86400 in one execute(): they expire together
CacheExpire ==
    /\ redis_client
    /\ cache # EmptyCache
    /\ cache' = EmptyCache
    /\ event' = NoEvent("cache_expire")
    /\ UNCHANGED <<files, redis_client, MODEL, PENALTY_RECORDS, PENALTY_TEXTS,
                   PENALTY_EMBEDDINGS, pc, call, local, hist, calls, faults,
                   constructions, computations>>

Next ==
    \/ \E c \in Callers : Call(c)
    \/ \E c \in Callers : ModelLoaded(c)
    \/ \E c \in Callers : CacheRead(c)
    \/ \E c \in Callers : Encoded(c)
    \/ \E c \in Callers : CacheWritten(c)
    \/ \E c \in Callers : QueryEncoded(c)
    \/ DatasetChange
    \/ CacheExpire

Spec == Init /\ [][Next]_vars

\* The same program serving searches only, over SearchDatasets and an
\* initially empty store
SearchInit ==
    /\ files \in SearchDatasets
    /\ redis_client \in BOOLEAN
    /\ cache = EmptyCache
    /\ MODEL = None
    /\ PENALTY_RECORDS = <<>>
    /\ PENALTY_TEXTS = <<>>
    /\ PENALTY_EMBEDDINGS = None
    /\ pc = [c \in Callers |-> "idle"]
    /\ call = [c \in Callers |-> NoCall]
    /\ local = [c \in Callers |-> EmptyLocal]
    /\ hist = [c \in Callers |-> NoHist]
    /\ calls = 0
    /\ faults = 0
    /\ constructions = 0
    /\ computations = 0
    /\ event = NoEvent("init")

SearchCallStarts(c) == CallWith(c, SearchInputs)

SearchDatasetChange == DatasetChangeWithin(SearchDatasets)

SearchNext ==
    \/ \E c \in Callers : SearchCallStarts(c)
    \/ \E c \in Callers : ModelLoaded(c)
    \/ \E c \in Callers : CacheRead(c)
    \/ \E c \in Callers : Encoded(c)
    \/ \E c \in Callers : CacheWritten(c)
    \/ \E c \in Callers : QueryEncoded(c)
    \/ SearchDatasetChange
    \/ CacheExpire

SearchSpec == SearchInit /\ [][SearchNext]_vars

\* The loading of the datasets alone, over ParseDatasets
ParseInit ==
    /\ files \in ParseDatasets
    /\ redis_client = FALSE
    /\ cache = EmptyCache
    /\ MODEL = None
    /\ PENALTY_RECORDS = <<>>
    /\ PENALTY_TEXTS = <<>>
    /\ PENALTY_EMBEDDINGS = None
    /\ pc = [c \in Callers |-> "idle"]
    /\ call = [c \in Callers |-> NoCall]
    /\ local = [c \in Callers |-> EmptyLocal]
    /\ hist = [c \in Callers |-> NoHist]
    /\ calls = 0
    /\ faults = 0
    /\ constructions = 0
    /\ computations = 0
    /\ event = NoEvent("init")

\* one run of _ensure_records_loaded()
LoadRecords ==
    /\ LET loaded == _ensure_records_loaded(PENALTY_RECORDS, PENALTY_TEXTS, files)
       IN  /\ PENALTY_RECORDS' = loaded.records
           /\ PENALTY_TEXTS' = loaded.texts
           /\ event' = Event("load", 0, "none",
                             IF loaded.err = None THEN "ok" ELSE Get(loaded.err),
                             None, NoCall, NoHist)
    /\ UNCHANGED <<files, redis_client, cache, MODEL, PENALTY_EMBEDDINGS, pc, call,
                   local, hist, calls, faults, constructions, computations>>

ParseNext == LoadRecords

ParseSpec == ParseInit /\ [][ParseNext]_vars

\* The program without a cache client while the operator replaces the
\* dataset files at any time, before or after they were loaded
ReloadInit ==
    /\ files \in ReloadVersions
    /\ redis_client = FALSE
    /\ cache = EmptyCache
    /\ MODEL = None
    /\ PENALTY_RECORDS = <<>>
    /\ PENALTY_TEXTS = <<>>
    /\ PENALTY_EMBEDDINGS = None
    /\ pc = [c \in Callers |-> "idle"]
    /\ call = [c \in Callers |-> NoCall]
    /\ local = [c \in Callers |-> EmptyLocal]
    /\ hist = [c \in Callers |-> NoHist]
    /\ calls = 0
    /\ faults = 0
    /\ constructions = 0
    /\ computations = 0
    /\ event = NoEvent("init")

\* the operator replaces the dataset files
DatasetReplaced ==
    /\ \E ds \in ReloadVersions \ {files} : files' = ds
    /\ event' = NoEvent("dataset_change")
    /\ UNCHANGED <<redis_client, cache, MODEL, PENALTY_RECORDS, PENALTY_TEXTS,
                   PENALTY_EMBEDDINGS, pc, call, local, hist, calls, faults,
                   constructions, computations>>

ReloadNext ==
    \/ \E c \in Callers : Call(c)
    \/ \E c \in Callers : ModelLoaded(c)
    \/ \E c \in Callers : Encoded(c)
    \/ \E c \in Callers : QueryEncoded(c)
    \/ DatasetReplaced

ReloadSpec == ReloadInit /\ [][ReloadNext]_vars

\* The process from its start-up: lifespan awaits the warm-up, then the
\* server takes searches
LifespanInit ==
    /\ files \in DatasetVersions
    /\ redis_client \in BOOLEAN
    /\ cache = EmptyCache
    /\ MODEL = None
    /\ PENALTY_RECORDS = <<>>
    /\ PENALTY_TEXTS = <<>>
    /\ PENALTY_EMBEDDINGS = None
    /\ pc = [c \in Callers |-> "idle"]
    /\ call = [c \in Callers |-> NoCall]
    /\ local = [c \in Callers |-> EmptyLocal]
    /\ hist = [c \in Callers |-> NoHist]
    /\ calls = 0
    /\ faults = 0
    /\ constructions = 0
    /\ computations = 0
    /\ event = NoEvent("init")

\* the searches the server takes
ServeInputs == {SearchCall(Q_Text, 2, None), SearchCall(Q_R, 2, Some(CAT_TRAFFIC))}

\* lifespan reaches "await get_penalty_details.ensure_penalty_embeddings()"
Lifespan ==
    /\ calls = 0
    /\ CallWith(1, {LifespanCall})

\* lifespan has yielded: a client calls penalty_semantic_lookup
Serve(c) ==
    /\ calls >= 1
    /\ \A d \in Callers : call[d].kind # "lifespan" /\ pc[d] # "crashed"
    /\ CallWith(c, ServeInputs)

LifespanNext ==
    \/ Lifespan
    \/ \E c \in Callers : Serve(c)
    \/ \E c \in Callers : ModelLoaded(c)
    \/ \E c \in Callers : CacheRead(c)
    \/ \E c \in Callers : Encoded(c)
    \/ \E c \in Callers : CacheWritten(c)
    \/ \E c \in Callers : QueryEncoded(c)
    \/ DatasetChange

LifespanSpec == LifespanInit /\ [][LifespanNext]_vars

\* The warm-up with callers that give up: no failure of the model or of
\* the encoder is injected, the only calls that do not run to their end are
\* the cancelled ones
CancelInit ==
    /\ files = DS_Live
    /\ redis_client \in BOOLEAN
    /\ cache \in (IF redis_client THEN InitialCaches ELSE {EmptyCache})
    /\ MODEL = None
    /\ PENALTY_RECORDS = <<>>
    /\ PENALTY_TEXTS = <<>>
    /\ PENALTY_EMBEDDINGS = None
    /\ pc = [c \in Callers |-> "idle"]
    /\ call = [c \in Callers |-> NoCall]
    /\ local = [c \in Callers |-> EmptyLocal]
    /\ hist = [c \in Callers |-> NoHist]
    /\ calls = 0
    /\ faults = MaxFaults
    /\ constructions = 0
    /\ computations = 0
    /\ event = NoEvent("init")

CancelInputs == {EnsureCall(FALSE), EnsureCall(TRUE), SearchCall(Q_Text, 2, None)}

CancelCallStarts(c) == CallWith(c, CancelInputs)

\* a faulty variant of Cancel: the warm-up is one task shared by the
\* waiters, and it is cancelled with the caller that gives up
Cancel_AbortsAll(c) ==
    /\ pc[c] \in {"load_model", "search_load_model", "cache_read", "encode",
                  "cache_write", "query_encode"}
    /\ pc' = [d \in Callers |-> "idle"]
    /\ call' = [d \in Callers |-> NoCall]
    /\ local' = [d \in Callers |-> EmptyLocal]
    /\ hist' = [d \in Callers |-> NoHist]
    /\ event' = Event("cancelled", c, "none", "CancelledError", None, call[c], hist[c])
    /\ UNCHANGED <<files, redis_client, cache, MODEL, PENALTY_RECORDS, PENALTY_TEXTS,
                   PENALTY_EMBEDDINGS, calls, faults, constructions, computations>>

\* the task of caller c is cancelled (its own caller timed out or went
\* away) while it awaits: CancelledError is raised at the await and no
\* handler of ensure_penalty_embeddings, penalty_semantic_lookup or
\* utils/redis.py catches it ("except Exception" does not).  A thread
\* started by asyncio.to_thread runs on and its result is dropped; a
\* pipeline being executed may or may not have reached the store
Cancel(c) ==
    /\ pc[c] \in {"load_model", "search_load_model", "cache_read", "encode",
                  "cache_write", "query_encode"}
    /\ Return(Step(c, call[c], "cancelled", "none", hist[c]), "CancelledError", None)
    /\ IF pc[c] = "cache_write"
       THEN cache' \in {cache, store_embeddings(cache, Get(local[c].payload), FALSE).store}
       ELSE cache' = cache
    /\ UNCHANGED <<files, redis_client, MODEL, PENALTY_RECORDS, PENALTY_TEXTS,
                   PENALTY_EMBEDDINGS, calls, faults>>

CancelNext ==
    \/ \E c \in Callers : CancelCallStarts(c)
    \/ \E c \in Callers : ModelLoaded(c)
    \/ \E c \in Callers : CacheRead(c)
    \/ \E c \in Callers : Encoded(c)
    \/ \E c \in Callers : CacheWritten(c)
    \/ \E c \in Callers : QueryEncoded(c)
    \/ \E c \in Callers : Cancel(c)

\* what the event loop guarantees a coroutine that is not cancelled: the
\* thread or the store operation it awaits ends, and it is resumed
Progress(c) ==
    ModelLoaded(c) \/ CacheRead(c) \/ Encoded(c) \/ CacheWritten(c) \/ QueryEncoded(c)

\* weak fairness of Progress(c) for every caller, written out: Progress(c)
\* is enabled exactly when caller c is not idle (each await has a branch
\* that needs no failure), so WF_vars(Progress(c)) says that c is idle
\* again and again or takes Progress(c) steps again and again
CancelSpec ==
    /\ CancelInit
    /\ [][CancelNext]_vars
    /\ \A c \in Callers : []<>(pc[c] = "idle") \/ []<><<Progress(c)>>_vars

\* ------------------------------------------------------------------------
\* calculate_mumbai_transport_fare.py: the metro fares.  The station lists
\* and the fare matrices are the source's, restricted to the stations below
\* (every interchange station, both ends of each line and one or two
\* stations between them); the order of the stations is the source's
\* ------------------------------------------------------------------------

LINE_1_STATIONS ==
    <<"Versova", "DN Nagar", "Andheri", "Western Express Highway", "Marol Naka",
      "Ghatkopar">>

LINE_1_FARES ==
    ("Versova" :>
          ("Versova" :> 10 @@ "DN Nagar" :> 10 @@ "Andheri" :> 20 @@
           "Western Express Highway" :> 20 @@ "Marol Naka" :> 30 @@ "Ghatkopar" :> 40) @@
       "DN Nagar" :>
          ("Versova" :> 10 @@ "DN Nagar" :> 10 @@ "Andheri" :> 20 @@
           "Western Express Highway" :> 20 @@ "Marol Naka" :> 30 @@ "Ghatkopar" :> 40) @@
       "Andheri" :>
          ("Versova" :> 20 @@ "DN Nagar" :> 20 @@ "Andheri" :> 10 @@
           "Western Express Highway" :> 10 @@ "Marol Naka" :> 20 @@ "Ghatkopar" :> 30) @@
       "Western Express Highway" :>
          ("Versova" :> 20 @@ "DN Nagar" :> 20 @@ "Andheri" :> 10 @@
           "Western Express Highway" :> 10 @@ "Marol Naka" :> 20 @@ "Ghatkopar" :> 30) @@
       "Marol Naka" :>
          ("Versova" :> 30 @@ "DN Nagar" :> 30 @@ "Andheri" :> 20 @@
           "Western Express Highway" :> 20 @@ "Marol Naka" :> 10 @@ "Ghatkopar" :> 20) @@
       "Ghatkopar" :>
          ("Versova" :> 40 @@ "DN Nagar" :> 40 @@ "Andheri" :> 30 @@
           "Western Express Highway" :> 30 @@ "Marol Naka" :> 20 @@ "Ghatkopar" :> 10))

LINE_2A_7_STATIONS == <<"Gundavali", "Dahisar (East)", "Oshiwara", "DN Nagar">>

LINE_2A_7_FARES ==
    ("Gundavali" :>
          ("Gundavali" :> 10 @@ "Dahisar (East)" :> 30 @@ "Oshiwara" :> 60 @@ "DN Nagar" :> 60) @@
       "Dahisar (East)" :>
          ("Gundavali" :> 30 @@ "Dahisar (East)" :> 10 @@ "Oshiwara" :> 30 @@ "DN Nagar" :> 30) @@
       "Oshiwara" :>
          ("Gundavali" :> 60 @@ "Dahisar (East)" :> 30 @@ "Oshiwara" :> 10 @@ "DN Nagar" :> 10) @@
       "DN Nagar" :>
          ("Gundavali" :> 60 @@ "Dahisar (East)" :> 30 @@ "Oshiwara" :> 10 @@ "DN Nagar" :> 10))

LINE_3_STATIONS == <<"Worli", "Marol Naka", "Aarey JVLR">>

LINE_3_FARES ==
    ("Worli" :>
          ("Worli" :> 10 @@ "Marol Naka" :> 50 @@ "Aarey JVLR" :> 60) @@
       "Marol Naka" :>
          ("Worli" :> 50 @@ "Marol Naka" :> 10 @@ "Aarey JVLR" :> 20) @@
       "Aarey JVLR" :>
          ("Worli" :> 60 @@ "Marol Naka" :> 20 @@ "Aarey JVLR" :> 10))

\* the dict in insertion order: name, stations, fare matrix
ALL_LINES_DATA ==
    <<[name |-> "Line 1 (Blue Line)", stations |-> LINE_1_STATIONS, fares |-> LINE_1_FARES],
      [name |-> "Line 2A & 7", stations |-> LINE_2A_7_STATIONS, fares |-> LINE_2A_7_FARES],
      [name |-> "Line 3 (Aqualine)", stations |-> LINE_3_STATIONS, fares |-> LINE_3_FARES]>>

INTERCHANGES ==
    <<("Line 1 (Blue Line)" :> "Marol Naka" @@ "Line 3 (Aqualine)" :> "Marol Naka"),
      ("Line 1 (Blue Line)" :> "Western Express Highway" @@ "Line 2A & 7" :> "Gundavali"),
      ("Line 1 (Blue Line)" :> "DN Nagar" @@ "Line 2A & 7" :> "DN Nagar")>>

\* ALL_LINES_DATA[line_name]
LineData(line_name) ==
    CHOOSE d \in {ALL_LINES_DATA[i] : i \in DOMAIN ALL_LINES_DATA} : d.name = line_name

\* whether a station is in the station list of the i-th line
OnLine(i, name) ==
    \E k \in DOMAIN ALL_LINES_DATA[i].stations : ALL_LINES_DATA[i].stations[k] = name

\* the dict filled by the loop over ALL_LINES_DATA.items(): the entry of a
\* station listed on two lines is overwritten by the later line.  The key is
\* name.lower(); no two station names differ in case only, so the name
\* stands for it
_STATION_TO_LINE(name) ==
    LET on   == {i \in DOMAIN ALL_LINES_DATA : OnLine(i, name)}
        last == CHOOSE i \in on : \A j \in on : j <= i
    IN  [line |-> ALL_LINES_DATA[last].name, station |-> name]

\* _lookup_station: a blank name raises; a station's own name is its best
\* match with score 100.  Any other string is scored by the fuzzy matcher,
\* which is not modelled: the inputs hold none
_lookup_station(station) ==
    IF station = "" \/ station = " " THEN [ok |-> FALSE]
    ELSE IF \E i \in DOMAIN ALL_LINES_DATA : OnLine(i, station)
    THEN [ok |-> TRUE, val |-> _STATION_TO_LINE(station)]
    ELSE [ok |-> FALSE]

_metro_same_line_fare(line_name, from_station, to_station) ==
    LET fare_matrix == LineData(line_name).fares
    IN  IF from_station \in DOMAIN fare_matrix
              /\ to_station \in DOMAIN fare_matrix[from_station]
        THEN LET fare_rs == fare_matrix[from_station][to_station]
             IN  [ok  |-> TRUE,
                  val |-> [mode          |-> "metro",
                           total_fare_rs |-> fare_rs,
                           segments      |-> <<[line         |-> line_name,
                                                from_station |-> from_station,
                                                to_station   |-> to_station,
                                                fare_rs      |-> fare_rs]>>]]
        ELSE [ok |-> FALSE]

\* the loop of _metro_interchange_fare from the i-th interchange on
RECURSIVE InterchangeFrom(_, _, _, _, _, _)
InterchangeFrom(i, best_route, from_line, to_line, from_station, to_station) ==
    IF i > Len(INTERCHANGES)
    THEN IF best_route = None THEN [ok |-> FALSE]
         ELSE [ok |-> TRUE, val |-> Get(best_route)]
    ELSE LET interchange == INTERCHANGES[i]
         IN  IF from_line \notin DOMAIN interchange \/ to_line \notin DOMAIN interchange
             THEN InterchangeFrom(i + 1, best_route, from_line, to_line,
                                  from_station, to_station)
             ELSE LET first_segment  == _metro_same_line_fare(
                                            from_line, from_station, interchange[from_line])
                      second_segment == _metro_same_line_fare(
                                            to_line, interchange[to_line], to_station)
                  IN  IF ~first_segment.ok \/ ~second_segment.ok THEN [ok |-> FALSE]
                      ELSE LET route ==
                                 [mode |-> "metro",
                                  total_fare_rs |-> first_segment.val.total_fare_rs
                                                      + second_segment.val.total_fare_rs,
                                  segments |->
                                      first_segment.val.segments
                                        \o <<[line         |-> "interchange",
                                              from_station |-> interchange[from_line],
                                              to_station   |-> interchange[to_line],
                                              fare_rs      |-> 0]>>
                                        \o second_segment.val.segments,
                                  interchange_used |-> [from_line |-> from_line,
                                                        to_line   |-> to_line,
                                                        details   |-> interchange]]
                           IN  InterchangeFrom(
                                   i + 1,
                                   IF best_route = None
                                        \/ route.total_fare_rs < Get(best_route).total_fare_rs
                                   THEN Some(route) ELSE best_route,
                                   from_line, to_line, from_station, to_station)

_metro_interchange_fare(from_line, to_line, from_station, to_station) ==
    InterchangeFrom(1, None, from_line, to_line, from_station, to_station)

_metro_fare(from_station_raw, to_station_raw) ==
    LET from == _lookup_station(from_station_raw)
        to   == _lookup_station(to_station_raw)
    IN  IF ~from.ok \/ ~to.ok THEN [ok |-> FALSE]
        ELSE IF from.val.line = to.val.line
        THEN _metro_same_line_fare(from.val.line, from.val.station, to.val.station)
        ELSE _metro_interchange_fare(from.val.line, to.val.line,
                                     from.val.station, to.val.station)

\* fare_lookup for a mode other than "road" (the road fares are read from a
\* CSV file and are left out): ok is FALSE where the code raises ValueError
fare_lookup(mode, from_station, to_station) ==
    IF mode = "metro"
    THEN IF from_station = "" \/ to_station = "" THEN [ok |-> FALSE]
         ELSE LET result == _metro_fare(from_station, to_station)
              IN  IF ~result.ok THEN result
                  ELSE [ok  |-> TRUE,
                        val |-> result.val
                                  @@ [from_station_raw_input |-> from_station,
                                      to_station_raw_input   |-> to_station]]
    ELSE [ok |-> FALSE]

\* the station names given to fare_lookup: every modelled station, the
\* empty string and a blank one
FareInputs ==
    UNION {{ALL_LINES_DATA[i].stations[k] : k \in DOMAIN ALL_LINES_DATA[i].stations} :
              i \in DOMAIN ALL_LINES_DATA}
        \cup {"", " "}

FareModes == {"metro", "bus"}

\* The fare tool alone: it keeps no state, each call is one step
FareInit ==
    /\ files = DS_Live
    /\ redis_client = FALSE
    /\ cache = EmptyCache
    /\ MODEL = None
    /\ PENALTY_RECORDS = <<>>
    /\ PENALTY_TEXTS = <<>>
    /\ PENALTY_EMBEDDINGS = None
    /\ pc = [c \in Callers |-> "idle"]
    /\ call = [c \in Callers |-> NoCall]
    /\ local = [c \in Callers |-> EmptyLocal]
    /\ hist = [c \in Callers |-> NoHist]
    /\ calls = 0
    /\ faults = 0
    /\ constructions = 0
    /\ computations = 0
    /\ event = NoEvent("init")

\* one call of fare_lookup(mode, from_station=..., to_station=...)
FareLookup ==
    /\ \E mode \in FareModes, from_station \in FareInputs, to_station \in FareInputs :
          LET result == fare_lookup(mode, from_station, to_station)
          IN  event' = Event("fare_lookup", 0, "none",
                             IF result.ok THEN "ok" ELSE "ValueError",
                             IF result.ok THEN Some(result.val) ELSE None,
                             [mode |-> mode, from_station |-> from_station,
                              to_station |-> to_station],
                             NoHist)
    /\ UNCHANGED <<files, redis_client, cache, MODEL, PENALTY_RECORDS, PENALTY_TEXTS,
                   PENALTY_EMBEDDINGS, pc, call, local, hist, calls, faults,
                   constructions, computations>>

FareNext == FareLookup

FareSpec == FareInit /\ [][FareNext]_vars

\* ------------------------------------------------------------------------
\* Properties
\* ------------------------------------------------------------------------

Ready == PENALTY_EMBEDDINGS # None

\* the last step ended a call
Returned == event.how # "pending"

\* caller c completed the await it was suspended at
Left(c, where) == pc[c] = where /\ pc'[c] # where

\* the text list under the values key, if the key holds the JSON text of one
CachedTexts ==
    IF Falsy(cache.values) THEN None
    ELSE IF JsonLoads(Get(cache.values)).ok
    THEN Some(JsonLoads(Get(cache.values)).val)
    ELSE None

\* both keys hold something and the values key is the JSON text of a list
CacheDecodable == ~Falsy(cache.values) /\ ~Falsy(cache.embeddings) /\ CachedTexts # None

\* the matrix the encoder gives for the live corpus
FreshMatrix == Encode(PENALTY_TEXTS, Dim)

\* C1: a completed cache read of a non-forced warm-up changes
\* PENALTY_EMBEDDINGS only if the text list stored in the cache equals
\* PENALTY_TEXTS element by element; whenever the stored list differs (or
\* cannot be read) the matrix is left alone and the caller goes on to the
\* encoder.
C1_AdoptOnlyEqualTexts ==
    [][\A c \in Callers :
          Left(c, "cache_read") =>
              /\ PENALTY_EMBEDDINGS' # PENALTY_EMBEDDINGS
                    => CachedTexts = Some(PENALTY_TEXTS)
              /\ CachedTexts # Some(PENALTY_TEXTS)
                    => pc'[c] = "encode" /\ PENALTY_EMBEDDINGS' = PENALTY_EMBEDDINGS
              /\ pc'[c] # "encode" => CachedTexts = Some(PENALTY_TEXTS)]_vars

\* a cache entry of the same length with one text edited was read without
\* a store failure, and the caller is at the encoder
C1_Witness ==
    /\ event.op = "cache_read"
    /\ event.what = "none"
    /\ CachedTexts = Some(ForeignTexts(DS_Edited))
    /\ PENALTY_TEXTS = ForeignTexts(DS_Live)
    /\ pc[event.caller] = "encode"
    /\ ~Ready

\* C2: without any failure, the encoder is run on the corpus at most once
\* for non-forced calls, however the calls interleave.
C2_OneComputation == faults = 0 => computations <= 1

\* C3: without any failure, the SentenceTransformer constructor is run at
\* most once per process.
C3_OneConstruction == faults = 0 => constructions <= 1

\* C4: whenever PENALTY_EMBEDDINGS is set it has one row per record, row i
\* being the embedding of PENALTY_TEXTS[i], which is the text of
\* PENALTY_RECORDS[i]; and the rows a search holds while it awaits the query
\* encoding are the rows of its indices in that matrix.
C4_MatrixAligned ==
    /\ Ready =>
          /\ Len(Get(PENALTY_EMBEDDINGS)) = Len(PENALTY_RECORDS)
          /\ Len(PENALTY_TEXTS) = Len(PENALTY_RECORDS)
          /\ \A i \in 1..Len(PENALTY_RECORDS) :
                /\ PENALTY_TEXTS[i] = as_text(PENALTY_RECORDS[i])
                /\ Get(PENALTY_EMBEDDINGS)[i] = EncodeText(PENALTY_TEXTS[i], Dim)
    /\ \A c \in Callers :
          pc[c] = "query_encode" =>
              /\ Len(local[c].subset) = Len(local[c].indices)
              /\ \A k \in 1..Len(local[c].indices) :
                    /\ local[c].indices[k] \in 1..Len(PENALTY_RECORDS)
                    /\ local[c].subset[k]
                          = EncodeText(PENALTY_TEXTS[local[c].indices[k]], Dim)

\* a search holds its rows while another call has just published a
\* recomputed matrix
C4_Witness ==
    /\ Ready
    /\ \E c \in Callers : pc[c] = "query_encode"
    /\ event.op = "encoded"
    /\ event.what = "none"
    /\ pc[event.caller] # "query_encode"

\* C5: a forced call never waits on a cache read; when it returns normally it
\* has read the cache zero times, run the encoder once and, with a cache
\* client, issued one cache write; the step in which its encoder run
\* completes publishes the encoding of the whole corpus, and its cache write
\* stores the texts and that matrix.
C5_ForceRecomputes ==
    /\ \A c \in Callers : call[c].force => pc[c] # "cache_read"
    /\ (Returned /\ event.args.force /\ event.how = "ok") =>
          /\ event.hist.reads = 0
          /\ event.hist.encodes = 1
          /\ event.hist.writes = (IF redis_client THEN 1 ELSE 0)
    /\ (event.op = "encoded" /\ event.what = "none"
            /\ (event.args.force \/ call[event.caller].force)) =>
          PENALTY_EMBEDDINGS = Some(FreshMatrix)
    /\ (event.op = "cache_written" /\ event.what = "none" /\ event.args.force) =>
          cache = StorePayload(PENALTY_TEXTS, FreshMatrix)

\* a forced call that began with the matrix set has returned after its
\* cache write
C5_Witness ==
    /\ Returned
    /\ event.args.force
    /\ event.how = "ok"
    /\ event.hist.ready
    /\ event.op = "cache_written"
    /\ event.what = "none"

\* C6: the step that starts a non-forced ensure_penalty_embeddings while the
\* matrix is set ends the call normally in that same step, with no cache
\* read, encoder run or cache write, and leaves the records, the texts, the
\* matrix, the model and the cache as they were.
C6_ReadyCallIsNoOp ==
    [][(event'.op = "call" /\ calls' = calls + 1 /\ Ready
            /\ event'.args = EnsureCall(FALSE))
          => /\ event'.how = "ok"
             /\ pc'[event'.caller] = "idle"
             /\ event'.hist.reads = 0
             /\ event'.hist.encodes = 0
             /\ event'.hist.writes = 0
             /\ UNCHANGED <<PENALTY_RECORDS, PENALTY_TEXTS, PENALTY_EMBEDDINGS,
                            MODEL, cache, constructions, computations>>]_vars

\* a non-forced ensure_penalty_embeddings that began with the matrix set
\* has returned
C6_Witness ==
    /\ event.op = "call"
    /\ event.args = EnsureCall(FALSE)
    /\ event.hist.ready
    /\ event.how = "ok"
    /\ Ready

InvalidInput(args) ==
    /\ args.kind = "search"
    /\ \/ Strip(args.query) = <<>>
       \/ args.top_k <= 0
       \/ ~_select_indices(args.category, <<>>).ok

\* C8: a call fails only for a cause present in that very attempt: invalid
\* arguments, a dataset file missing or empty at that time, or a failure of
\* the model constructor or of the encoder in the failing step; a failure of
\* an earlier attempt never makes a later one fail, and an
\* ensure_penalty_embeddings that returns normally leaves the matrix set.
C8_FreshAttempt ==
    Returned =>
        /\ event.how \in {"ok", "ValueError", "FileNotFoundError", "RuntimeError",
                          "ModelLoadError", "EncodingError"}
        /\ event.how = "ValueError" => InvalidInput(event.args)
        /\ event.how = "FileNotFoundError" =>
              files.traffic = None \/ files.railway = None
        /\ event.how = "RuntimeError" =>
              /\ files.traffic # None
              /\ files.railway # None
              /\ ParseDataset(files) = <<>>
        /\ event.how \in {"ModelLoadError", "EncodingError"} => event.what = "fault"
        /\ (event.how = "ok" /\ event.args.kind = "ensure") => Ready

\* after a failed attempt, a later call that began with the matrix unset
\* has returned normally and the matrix is set
C8_Witness ==
    /\ Returned
    /\ event.how = "ok"
    /\ faults > 0
    /\ ~event.hist.ready
    /\ event.hist.encodes = 1
    /\ Ready
    /\ calls > 1

\* the byte buffer under the embeddings key cannot be reshaped to
\* (number of cached texts, Dim)
ShapeMismatch ==
    /\ CacheDecodable
    /\ \/ Len(Get(cache.embeddings)) % 4 # 0
       \/ Len(Get(cache.embeddings)) # 4 * Len(Get(CachedTexts)) * Dim

\* C9: no call ever ends with an exception of the cache; a cache read that
\* fails or finds an entry it cannot decode leaves the matrix alone and sends
\* the caller to the encoder; a cache write that fails leaves the cache as
\* it was and the call goes on as after a write; and a warm-up whose cache
\* operations failed still ends normally with the matrix set.
C9_CacheFailuresAbsorbed ==
    [][/\ event'.how # "CacheError"
       /\ \A c \in Callers :
             /\ (Left(c, "cache_read")
                    /\ (event'.what = "cache_fault" \/ ~CacheDecodable))
                  => /\ pc'[c] = "encode"
                     /\ event'.how = "pending"
                     /\ PENALTY_EMBEDDINGS' = PENALTY_EMBEDDINGS
             /\ (Left(c, "cache_write") /\ event'.what = "cache_fault")
                  => /\ cache' = cache
                     /\ PENALTY_EMBEDDINGS' = PENALTY_EMBEDDINGS
                     /\ Ready
                     /\ call[c].kind = "ensure" => event'.how = "ok"
       /\ (event'.how # "pending" /\ event'.hist.cfaults > 0
              /\ event'.args.kind = "ensure" /\ event'.what # "fault")
            => event'.how = "ok" /\ PENALTY_EMBEDDINGS' # None]_vars

\* a warm-up whose cache read and cache write both failed has returned
\* normally with the freshly computed matrix
C9_Witness ==
    /\ Returned
    /\ event.args = EnsureCall(FALSE)
    /\ event.how = "ok"
    /\ event.hist.cfaults = 2
    /\ event.hist.encodes = 1
    /\ PENALTY_EMBEDDINGS = Some(FreshMatrix)

\* C10: a cache read that completes without a store failure on an entry
\* whose byte buffer cannot be reshaped to (number of cached texts, Dim)
\* raises nothing: the call goes on to the encoder.
C10_ShapeMismatchIsMiss ==
    (event.op = "cache_read" /\ event.what = "none" /\ ShapeMismatch) =>
        /\ event.how = "pending"
        /\ pc[event.caller] = "encode"

\* the entry read holds the live texts and a matrix of another
\* dimensionality, and the caller is at the encoder with the matrix unset
C10_Witness ==
    /\ event.op = "cache_read"
    /\ event.what = "none"
    /\ ShapeMismatch
    /\ CachedTexts = Some(PENALTY_TEXTS)
    /\ Len(Get(cache.embeddings)) = 4 * Len(PENALTY_TEXTS) * (Dim + 1)
    /\ pc[event.caller] = "encode"
    /\ ~Ready

\* C11: the two keys change together.  Every step that changes the store
\* either removes both keys (they were set with the same expiry) or is the
\* completed execute() of one store_embeddings, after which the values key
\* and the embeddings key hold the texts and the matrix of that one write;
\* and a cache read that makes its caller adopt a matrix found, under the
\* two keys, the texts and the bytes of one and the same write.
C11_KeysWrittenTogether ==
    [][/\ cache' # cache =>
             \/ cache' = EmptyCache
             \/ \E c \in Callers :
                   /\ Left(c, "cache_write")
                   /\ cache' = Get(local[c].payload)
                   /\ cache' = StorePayload(PENALTY_TEXTS, FreshMatrix)
       /\ \A c \in Callers :
             (Left(c, "cache_read") /\ pc'[c] # "encode") =>
                 /\ CachedTexts # None
                 /\ PENALTY_EMBEDDINGS' # None
                 /\ cache = StorePayload(Get(CachedTexts), Get(PENALTY_EMBEDDINGS'))]_vars

\* a cache write has completed while another caller waits for its cache
\* read
C11_Witness ==
    /\ event.op = "cache_written"
    /\ event.what = "none"
    /\ cache = StorePayload(PENALTY_TEXTS, FreshMatrix)
    /\ \E c \in Callers : pc[c] = "cache_read"

\* a search has returned a ranked list
Ranked == event.op = "query_encoded" /\ event.how = "ok"

\* the similarity of record i to a query
Similarity(i, query) == Dot(FreshMatrix[i], EncodeText(query, Dim))

\* the positions in PENALTY_RECORDS a category selects
Subset(category) == _select_indices(category, PENALTY_RECORDS).val

\* C12: a search that returns a ranked list returns min(top_k, size of the
\* filtered subset) results; they are distinct records of the subset, each
\* with its own similarity to the query, by non-increasing similarity; and
\* no record of the subset that is left out is more similar than one that
\* is returned.
C12_TopKOfSubset ==
    Ranked =>
        LET res   == Get(event.value).results
            sub   == Subset(event.args.category)
            query == event.args.query
        IN  /\ Len(res) = Min(event.args.top_k, Len(sub))
            /\ Get(event.value).matched = Len(res)
            /\ Get(event.value).total_candidates = Len(sub)
            /\ \A a, b \in 1..Len(res) : a < b => res[a].similarity >= res[b].similarity
            /\ \E pick \in [1..Len(res) -> 1..Len(sub)] :
                  /\ \A a, b \in 1..Len(res) : a # b => pick[a] # pick[b]
                  /\ \A a \in 1..Len(res) :
                        res[a] = _format_record(PENALTY_RECORDS[sub[pick[a]]],
                                                Similarity(sub[pick[a]], query))
                  /\ \A i \in 1..Len(sub) :
                        (\A a \in 1..Len(res) : pick[a] # i) =>
                            \A a \in 1..Len(res) :
                                Similarity(sub[i], query) <= res[a].similarity

\* a search returned fewer results than there were candidates, the first
\* more similar than the second and not the first record of the corpus
C12_Witness ==
    /\ Ranked
    /\ Get(event.value).matched = 2
    /\ Get(event.value).total_candidates > 2
    /\ Get(event.value).results[1].similarity > Get(event.value).results[2].similarity
    /\ Get(event.value).results[1].description # OrNone(PENALTY_RECORDS[1].description)

\* the position in PENALTY_RECORDS of a returned result (the records of the
\* datasets are pairwise different)
IndexOf(result, query) ==
    CHOOSE i \in 1..Len(PENALTY_RECORDS) :
        result = _format_record(PENALTY_RECORDS[i], Similarity(i, query))

\* C13: among equally similar candidates the one that comes first in
\* PENALTY_RECORDS is returned first, and is the one kept when the tie
\* straddles the cut at top_k.
C13_TiesByIndex ==
    Ranked =>
        LET res   == Get(event.value).results
            sub   == Subset(event.args.category)
            query == event.args.query
            found == {IndexOf(res[a], query) : a \in 1..Len(res)}
        IN  /\ \A a, b \in 1..Len(res) :
                  (a < b /\ res[a].similarity = res[b].similarity) =>
                      IndexOf(res[a], query) < IndexOf(res[b], query)
            /\ \A k \in 1..Len(sub) : \A a \in 1..Len(res) :
                  (sub[k] \notin found /\ Similarity(sub[k], query) = res[a].similarity) =>
                      IndexOf(res[a], query) < sub[k]

\* the categories a category argument stands for
Targets(category) ==
    IF category = None THEN {CAT_TRAFFIC, CAT_RAILWAY, CAT_RAILWAY_OTHER}
    ELSE IF category = Some(CAT_RAILWAY) THEN {CAT_RAILWAY, CAT_RAILWAY_OTHER}
    ELSE {Get(category)}

\* the positions of the records of these categories
PositionsOf(targets) ==
    {i \in 1..Len(PENALTY_RECORDS) : PENALTY_RECORDS[i].category \in targets}

\* C14: the candidates of a search are, in ascending order, the positions
\* of all records for no category, of the railway and railway-other
\* records for "railway", and of the records of that category for "traffic"
\* and "railway-other"; every record a search returns is of these
\* categories.
C14_CategoryFilter ==
    /\ \A c \in Callers :
          pc[c] = "query_encode" =>
              LET idx == local[c].indices
              IN  /\ \A a, b \in 1..Len(idx) : a < b => idx[a] < idx[b]
                  /\ {idx[k] : k \in 1..Len(idx)} = PositionsOf(Targets(call[c].category))
    /\ Ranked =>
          /\ Get(event.value).total_candidates =
                 Cardinality(PositionsOf(Targets(event.args.category)))
          /\ \A a \in 1..Len(Get(event.value).results) :
                 Get(event.value).results[a].category \in Targets(event.args.category)

\* a "railway" search holds the railway and the railway-other record of a
\* corpus that has traffic records before them
C14_Witness ==
    \E c \in Callers :
        /\ pc[c] = "query_encode"
        /\ call[c].category = Some(CAT_RAILWAY)
        /\ Len(local[c].indices) = 2
        /\ PENALTY_RECORDS[local[c].indices[1]].category = CAT_RAILWAY
        /\ PENALTY_RECORDS[local[c].indices[2]].category = CAT_RAILWAY_OTHER
        /\ PENALTY_RECORDS[1].category = CAT_TRAFFIC

\* C15: every search with a blank query, a top_k of zero or less, or a
\* category that is none of the three ends with ValueError.
C15_InvalidInputRaisesValueError ==
    (Returned /\ InvalidInput(event.args)) => event.how = "ValueError"

\* C16: a search with invalid arguments is rejected in the step in which it
\* is called, with ValueError, and that step loads no records, starts no
\* model load, no encoder run and no cache access, and leaves the store as
\* it was.
C16_RejectedImmediately ==
    [][(event'.op = "call" /\ calls' = calls + 1 /\ InvalidInput(event'.args)) =>
          /\ event'.how = "ValueError"
          /\ UNCHANGED <<PENALTY_RECORDS, PENALTY_TEXTS, PENALTY_EMBEDDINGS, MODEL,
                         cache, constructions, computations>>]_vars

\* C17: a search whose valid category selects no record never waits for a
\* query encoding; unless its warm-up failed it returns normally, before
\* any query encoding, a dict with an empty result list and a note.
C17_EmptySubsetGivesNote ==
    /\ \A c \in Callers : pc[c] = "query_encode" => local[c].indices # <<>>
    /\ (/\ Returned
        /\ event.args.kind = "search"
        /\ ~InvalidInput(event.args)
        /\ PENALTY_RECORDS # <<>>
        /\ Subset(event.args.category) = <<>>
        /\ event.what # "fault") =>
            /\ event.how = "ok"
            /\ event.op # "query_encoded"
            /\ Get(event.value).results = <<>>
            /\ Get(event.value).notes # None
            /\ Get(Get(event.value).notes) # ""

\* a "railway" search of a corpus without railway records has returned
C17_Witness ==
    /\ Returned
    /\ event.how = "ok"
    /\ event.args.category = Some(CAT_RAILWAY)
    /\ PENALTY_RECORDS # <<>>
    /\ Subset(event.args.category) = <<>>
    /\ Get(event.value).results = <<>>
    /\ Get(event.value).notes # None

\* C18: no step of a search that began with the matrix set changes the
\* records, the texts, the matrix, the model or the store, or starts a
\* model construction or an encoding of the corpus, whatever its arguments
\* and however it ends.
C18_ReadySearchIsPureRead ==
    [][(event'.args.kind = "search" /\ event'.hist.ready) =>
          UNCHANGED <<PENALTY_RECORDS, PENALTY_TEXTS, PENALTY_EMBEDDINGS, MODEL,
                      cache, constructions, computations>>]_vars

\* a search that began with the matrix set has returned a ranked list
C18_Witness ==
    /\ Ranked
    /\ event.hist.ready
    /\ Ready
    /\ Get(event.value).matched > 0

\* the datasets were loaded by the last step
Loaded == event.op = "load" /\ event.how = "ok"

\* the line is the marker of the second section of the railway file
IsMarker(line) == Lower(Strip(line)) = OTHER_OFFENCES

\* a railway line that carries a record: not blank, not a title, not the
\* marker, and with something in its code or description
IsRailwayData(line) ==
    LET stripped == Strip(line)
        parts    == SplitFields(stripped)
    IN  /\ stripped # <<>>
        /\ ~StartsWith(Lower(stripped), RAILWAY_HEADER)
        /\ ~IsMarker(line)
        /\ \E i \in 1..Min(2, Len(parts)) : parts[i] # <<>>

\* the positions of the data lines of a railway file, ascending
RECURSIVE DataPositions(_, _)
DataPositions(lines, i) ==
    IF i > Len(lines) THEN <<>>
    ELSE (IF IsRailwayData(lines[i]) THEN <<i>> ELSE <<>>) \o DataPositions(lines, i + 1)

\* C19: _parse_railway_records yields one record per data line, in file
\* order, and no record for any other line; the record of a data line that
\* comes after a marker line ("other offences" in any case, blanks around it
\* ignored) has category railway-other, that of a data line with no marker
\* before it has category railway; and a successful load holds these
\* records after the traffic records.
C19_OtherOffencesSection ==
    files.railway # None =>
        LET lines == Get(files.railway)
            recs  == _parse_railway_records(lines)
            pos   == DataPositions(lines, 1)
        IN  /\ Len(recs) = Len(pos)
            /\ \A k \in 1..Len(recs) :
                  recs[k].category =
                      IF \E j \in 1..(pos[k] - 1) : IsMarker(lines[j])
                      THEN CAT_RAILWAY_OTHER ELSE CAT_RAILWAY
            /\ Loaded =>
                  PENALTY_RECORDS = _parse_traffic_records(Get(files.traffic)) \o recs

\* a railway file with a data line, the marker in upper case and two more
\* data lines has been loaded
C19_Witness ==
    /\ Loaded
    /\ files.railway = Some(<<L_R1, L_OtherMarkerUpper, L_R2, L_R1>>)
    /\ LET n == Len(PENALTY_RECORDS)
       IN  /\ n > 3
           /\ PENALTY_RECORDS[n - 2].category = CAT_RAILWAY
           /\ PENALTY_RECORDS[n - 1].category = CAT_RAILWAY_OTHER
           /\ PENALTY_RECORDS[n].category = CAT_RAILWAY_OTHER

\* the line holds a comma
HasComma(line) == \E i \in 1..Len(line) : line[i] = ","

\* C20: a traffic line without a comma yields no record, and the records of
\* a traffic file are those of the file without such lines, in the same
\* order; a successful load holds them before the railway records.
C20_NoCommaLineSkipped ==
    files.traffic # None =>
        LET lines == Get(files.traffic)
            recs  == _parse_traffic_records(lines)
        IN  /\ \A i \in 1..Len(lines) :
                  ~HasComma(lines[i]) => TrafficLineRecords(lines[i]) = <<>>
            /\ recs = _parse_traffic_records(SelectSeq(lines, HasComma))
            /\ Len(recs) = Len(SelectSeq(lines, HasComma))
            /\ \A k \in 1..Len(recs) :
                  recs[k].code = SplitFields(Strip(SelectSeq(lines, HasComma)[k]))[1]
            /\ (Loaded /\ files.railway # None) =>
                  PENALTY_RECORDS = recs \o _parse_railway_records(Get(files.railway))

\* a traffic file with a line without a comma between two data lines has
\* been loaded
C20_Witness ==
    /\ Loaded
    /\ files.traffic = Some(<<L_T1, L_Bad, L_T2>>)
    /\ PENALTY_RECORDS[1].description = <<"b", "c">>
    /\ PENALTY_RECORDS[2].description = <<"f", "g">>
    /\ PENALTY_RECORDS[3].category # CAT_TRAFFIC

\* C21: whatever the loaded files hold, the first line of a file yields no
\* record, and every later line that is not blank and is well formed (for
\* the traffic file: it has a comma; for the railway file: it is a data
\* line) yields one.
C21_FirstLineIsHeader ==
    /\ (Loaded /\ files.traffic # None /\ Get(files.traffic) # <<>>) =>
          LET lines == Get(files.traffic)
          IN  /\ _parse_traffic_records(<<lines[1]>>) = <<>>
              /\ \A i \in 2..Len(lines) :
                    (Strip(lines[i]) # <<>> /\ HasComma(lines[i])) =>
                        _parse_traffic_records(<<lines[i]>>) # <<>>
    /\ (Loaded /\ files.railway # None /\ Get(files.railway) # <<>>) =>
          LET lines == Get(files.railway)
          IN  /\ _parse_railway_records(<<lines[1]>>) = <<>>
              /\ \A i \in 2..Len(lines) :
                    IsRailwayData(lines[i]) => _parse_railway_records(<<lines[i]>>) # <<>>

\* C22: every record of a loaded dataset has a description.
C22_DescriptionNonEmpty ==
    Loaded => \A i \in 1..Len(PENALTY_RECORDS) : PENALTY_RECORDS[i].description # <<>>

\* C23: the load sets PENALTY_RECORDS to the traffic records in file order
\* followed by the railway records in file order; PENALTY_TEXTS always has
\* the as_text() of each record at the same position; and once the records
\* are loaded no step of any call changes either list, whatever the files
\* hold by then.
C23_RecordsFixedAtLoad ==
    /\ [](/\ Len(PENALTY_TEXTS) = Len(PENALTY_RECORDS)
          /\ \A i \in 1..Len(PENALTY_RECORDS) :
                PENALTY_TEXTS[i] = as_text(PENALTY_RECORDS[i]))
    /\ [][/\ (PENALTY_RECORDS = <<>> /\ PENALTY_RECORDS' # <<>>) =>
                PENALTY_RECORDS' = _parse_traffic_records(Get(files.traffic))
                                      \o _parse_railway_records(Get(files.railway))
          /\ PENALTY_RECORDS # <<>> =>
                UNCHANGED <<PENALTY_RECORDS, PENALTY_TEXTS>>]_vars

\* a forced warm-up or a search has begun on a Ready store after the files
\* were replaced by a version with other records
C23_Witness ==
    /\ event.op = "call"
    /\ event.hist.ready
    /\ event.args.force \/ event.args.kind = "search"
    /\ PENALTY_RECORDS # <<>>
    /\ PENALTY_RECORDS # ParseDataset(files)

\* a dataset file is missing, or the two files hold no record
Unloadable(ds) ==
    \/ ds.traffic = None
    \/ ds.railway = None
    \/ _parse_traffic_records(Get(ds.traffic)) \o _parse_railway_records(Get(ds.railway)) = <<>>

\* C24: when a dataset file is missing or the two files hold no record, a
\* call of ensure_penalty_embeddings raises in its first step, before any
\* model construction, cache operation or encoder run, and the records,
\* the texts and the matrix stay unset.
C24_UnloadableFailsFirst ==
    (event.op = "call" /\ event.args.kind = "ensure" /\ Unloadable(files)) =>
        /\ event.how = (IF files.traffic = None \/ files.railway = None
                        THEN "FileNotFoundError" ELSE "RuntimeError")
        /\ PENALTY_RECORDS = <<>>
        /\ PENALTY_TEXTS = <<>>
        /\ PENALTY_EMBEDDINGS = None
        /\ MODEL = None
        /\ constructions = 0
        /\ computations = 0
        /\ event.hist.reads = 0 /\ event.hist.encodes = 0 /\ event.hist.writes = 0
        /\ \A c \in Callers : pc[c] = "idle"

\* a warm-up was called, forced, over files that hold no record
C24_Witness ==
    /\ event.op = "call"
    /\ event.args.kind = "ensure"
    /\ event.args.force
    /\ files = DS_Empty
    /\ event.how = "RuntimeError"

\* C25: with a cache client, a completed encoder run that raised nothing
\* leaves its caller awaiting the write of (PENALTY_TEXTS, the computed
\* matrix); a write that completes without a store failure leaves exactly
\* that entry in the cache; a call that has gone past its encoder run has
\* issued one write; and a call that has run no encoder (one that adopted
\* the cached matrix among them) has issued none.
C25_FreshComputationIsCached ==
    /\ (event.op = "encoded" /\ event.what = "none" /\ redis_client) =>
          /\ event.how = "pending"
          /\ pc[event.caller] = "cache_write"
          /\ Ready
          /\ local[event.caller].payload =
                Some(StorePayload(PENALTY_TEXTS, Get(PENALTY_EMBEDDINGS)))
    /\ (event.op = "cache_written" /\ event.what = "none") =>
          /\ Ready
          /\ cache = StorePayload(PENALTY_TEXTS, Get(PENALTY_EMBEDDINGS))
    /\ (redis_client /\ event.hist.encodes > 0 /\ event.op # "encoded") =>
          event.hist.writes = 1
    /\ event.hist.encodes = 0 => event.hist.writes = 0

\* a warm-up that missed the cache has computed the matrix and its write
\* has replaced the entry of another deployment
C25_Witness ==
    /\ event.op = "cache_written"
    /\ event.what = "none"
    /\ event.hist.reads = 1
    /\ event.hist.encodes = 1
    /\ event.hist.writes = 1
    /\ cache = StorePayload(PENALTY_TEXTS, FreshMatrix)

\* C26: no call issues a cache read while the matrix is set.  A step that
\* leaves its caller awaiting get_cached_embeddings does not change the
\* matrix, so the matrix was unset when the read was issued.
C26_NoReadWhenReady ==
    (event.op \in {"call", "model_loaded"} /\ pc[event.caller] = "cache_read") => ~Ready

\* C27: the warm-up of lifespan never ends the process: whatever it raised,
\* lifespan goes on, and when the warm-up left the matrix unset the failure
\* line was printed.  A search that begins afterwards on an unset matrix,
\* once the records can be loaded, starts the warm-up itself, and when it
\* returns results it has gone through the warm-up (it read the cache or
\* ran the encoder on the corpus) and the matrix is set.
C27_StartupFailureNotFatal ==
    /\ \A c \in Callers : pc[c] # "crashed"
    /\ (event.args.kind = "lifespan" /\ Returned) =>
          /\ event.how = "ok"
          /\ pc[event.caller] = "idle"
          /\ ~Ready => event.value = Some(WARMUP_FAILED)
          /\ Ready => event.value = None
    /\ (event.op = "call" /\ event.args.kind = "search" /\ ~event.hist.ready
            /\ PENALTY_RECORDS # <<>>) =>
          /\ event.how = "pending"
          /\ pc[event.caller] \in {"load_model", "cache_read", "encode"}
    /\ (event.args.kind = "search" /\ event.how = "ok" /\ ~event.hist.ready) =>
          /\ Ready
          /\ event.hist.reads = 1 \/ event.hist.encodes = 1

\* the warm-up of lifespan had failed, and a search made afterwards has
\* warmed the store up and returned results
C27_Witness ==
    /\ event.args.kind = "search"
    /\ event.op = "query_encoded"
    /\ event.how = "ok"
    /\ ~event.hist.ready
    /\ event.hist.encodes = 1
    /\ faults > 0
    /\ Ready

\* C28: fare_lookup(mode="metro", from_station="Versova",
\* to_station="Ghatkopar") returns a total fare of 110 rupees.
C28_VersovaGhatkoparIs110 ==
    (event.op = "fare_lookup"
        /\ event.args = [mode |-> "metro", from_station |-> "Versova",
                         to_station |-> "Ghatkopar"]) =>
        /\ event.how = "ok"
        /\ Get(event.value).total_fare_rs = 110

\* C29: a cancelled call changes nothing but its own coroutine (the model,
\* the records, the texts, the matrix and every other coroutine stay as
\* they were); when nothing else fails every call that is not itself
\* cancelled returns normally with the matrix set; and every call in
\* flight comes to its end.
C29_CancelLeavesOthersAlone ==
    /\ [][event'.how = "CancelledError" =>
             /\ UNCHANGED <<MODEL, PENALTY_RECORDS, PENALTY_TEXTS, PENALTY_EMBEDDINGS>>
             /\ \A c \in Callers \ {event'.caller} :
                   /\ pc'[c] = pc[c]
                   /\ call'[c] = call[c]
                   /\ local'[c] = local[c]
                   /\ hist'[c] = hist[c]]_vars
    /\ [](Returned => \/ event.how = "CancelledError"
                      \/ event.how = "ok" /\ Ready)
    /\ \A c \in Callers : (pc[c] # "idle") ~> (pc[c] = "idle")

\* a caller was cancelled during its encoder run while another caller was
\* in flight and the matrix was unset
C29_Witness ==
    /\ event.op = "cancelled"
    /\ event.how = "CancelledError"
    /\ event.hist.encodes = 0
    /\ ~Ready
    /\ \E c \in Callers \ {event.caller} : pc[c] \in {"load_model", "cache_read", "encode"}

\* C30: a metro fare between two stations that are both in the station list
\* of one line is the entry of that line's fare matrix, returned as a
\* single segment on that line.
C30_SameLineIsOneSegment ==
    (event.op = "fare_lookup" /\ event.args.mode = "metro") =>
        \A i \in DOMAIN ALL_LINES_DATA :
            (OnLine(i, event.args.from_station) /\ OnLine(i, event.args.to_station)) =>
                /\ event.how = "ok"
                /\ \E j \in DOMAIN ALL_LINES_DATA :
                      /\ OnLine(j, event.args.from_station)
                      /\ OnLine(j, event.args.to_station)
                      /\ Get(event.value).total_fare_rs =
                            ALL_LINES_DATA[j].fares[event.args.from_station]
                                                   [event.args.to_station]
                      /\ Len(Get(event.value).segments) = 1
                      /\ Get(event.value).segments[1].line = ALL_LINES_DATA[j].name

====
